---------------------------- MODULE Spec2Model ----------------------------
(***************************************************************************)
(* Model of ResearchLikeIAmFive: the in-memory sliding-window rate limiter *)
(* (src/api/_rate_limiter.py), the Flask summarize / health handlers       *)
(* (src/api/app.py), the URL validators (src/backend/security.py,          *)
(* src/api/_utils.py) and the Eminem verse formatter (src/api/app.py).     *)
(***************************************************************************)
EXTENDS Integers, Sequences, FiniteSets, TLC

VARIABLES
    now,      \* the wall clock read by time.time(), in seconds
    store,    \* _rate_limit_store: client id -> record, created lazily
    last,     \* what the most recent RateLimiter.is_allowed call returned
    thr,      \* per request thread: its position inside is_allowed and its locals
    admitted, \* per client: the timestamps of the calls that returned allowed
    pending,  \* per client: the reset time a rejected summarize check told it
    url,      \* the URL string handed to the validators
    verdict,  \* what each URL validator answered for url
    rq,       \* the summarize request being handled: position, locals, response
    disk,     \* the temporary PDF files that exist on disk
    text,     \* a summary field handed to add_rap_formatting
    once,     \* add_rap_formatting(text)
    twice,    \* add_rap_formatting(add_rap_formatting(text))
    passes,   \* how many times the formatter has been applied so far
    input,    \* the argument handed to a helper function of the pipeline
    output    \* what the helper returned or raised for it

limiterVars == <<now, store, last>>
threadVars == <<thr, admitted>>
urlVars == <<url, verdict>>
requestVars == <<rq, disk>>
verseVars == <<text, once, twice, passes>>
helperVars == <<input, output>>
recoveryVars == <<pending>>
vars == <<limiterVars, threadVars, urlVars, requestVars, verseVars, helperVars,
          recoveryVars>>

-----------------------------------------------------------------------------
(* Bounds of the model *)

\* the clock advances in steps of TimeStep seconds ...
TimeStep == 30
\* ... up to MaxTime seconds
MaxTime == 90
\* a client's record is not grown past MaxRecord timestamps
MaxRecord == 6
\* no more calls are made for a client once MaxAdmitted of its calls were
\* admitted or are in progress
MaxAdmitted == 6
\* no request arrives once MaxFiles temporary files are on disk
MaxFiles == 2
\* the texts given to the verse formatter have at most MaxTextLen tokens
MaxTextLen == 7
\* a word token stands for WordLen letters
WordLen == 30
\* the strings inside the AI service's payloads have at most MaxContentLen
\* characters
MaxContentLen == 4
\* an extracted text has at most MaxRuns runs of one repeated character
MaxRuns == 2
\* key_findings and key_terms hold at most MaxItems elements
MaxItems == 2
\* an x-forwarded-for header has at most MaxForwarded tokens
MaxForwarded == 4

-----------------------------------------------------------------------------
(* Rate limiter: src/api/_rate_limiter.py *)

Clients == {"10.0.0.1", "unknown"}

\* RateLimiter.__init__: the two fields of an instance
RateLimiter(requests_per_minute, window_size_seconds) ==
    [requests_per_minute |-> requests_per_minute,
     window_size_seconds |-> window_size_seconds]

\* the module-level instance used by /api/summarize
default_rate_limiter == RateLimiter(5, 60)

\* the instance /api/health builds on every call
health_rate_limiter == RateLimiter(30, 60)

Limiters == {default_rate_limiter, health_rate_limiter}

Max(a, b) == IF a >= b THEN a ELSE b

\* min() of a non-empty list of timestamps
MinOf(requests) ==
    CHOOSE m \in {requests[i] : i \in DOMAIN requests} :
        \A i \in DOMAIN requests : m <= requests[i]

\* the key under which a client's record is kept in _rate_limit_store
StoreKeyShared(self, client_id) == "unknown"
StoreKey(self, client_id) == client_id

\* `if client_id not in _rate_limit_store: ...` : lazy creation of the record
WithRecord(st, key, current_time) ==
    IF key \in DOMAIN st
    THEN st
    ELSE [k \in DOMAIN st \cup {key} |->
            IF k = key
            THEN [requests |-> <<>>, first_request_time |-> current_time]
            ELSE st[k]]

\* the list comprehension's filter: `req_time > cutoff_time`
InWindow(req_time, cutoff_time) == req_time > cutoff_time

\* "Clean old requests outside the window"
CleanOld(requests, cutoff_time) ==
    SelectSeq(requests, LAMBDA req_time : InWindow(req_time, cutoff_time))

\* `is_allowed = current_request_count < self.requests_per_minute`
UnderLimitInclusive(current_request_count, requests_per_minute) ==
    current_request_count <= requests_per_minute
UnderLimit(current_request_count, requests_per_minute) ==
    current_request_count < requests_per_minute

\* "Calculate reset time"
ResetTimeFromNow(requests, current_time, window_size_seconds) ==
    current_time + window_size_seconds
ResetTime(requests, current_time, window_size_seconds) ==
    IF requests # <<>>
    THEN MinOf(requests) + window_size_seconds
    ELSE current_time + window_size_seconds

\* RateLimiter.is_allowed(self, client_id) with time.time() = current_time on
\* the store st: the decision, the info dictionary and the store afterwards
is_allowed(self, client_id, current_time, st) ==
    LET key          == StoreKey(self, client_id)
        st1          == WithRecord(st, key, current_time)
        cutoff_time  == current_time - self.window_size_seconds
        cleaned      == CleanOld(st1[key].requests, cutoff_time)
        current_request_count == Len(cleaned)
        allowed      == UnderLimit(current_request_count, self.requests_per_minute)
        requests     == IF allowed THEN Append(cleaned, current_time) ELSE cleaned
        reset_time   == ResetTime(requests, current_time, self.window_size_seconds)
        rate_limit_info ==
            [limit       |-> self.requests_per_minute,
             remaining   |-> Max(0, self.requests_per_minute - current_request_count
                                    - (IF allowed THEN 1 ELSE 0)),
             reset       |-> reset_time,
             retry_after |-> IF ~allowed THEN Max(0, reset_time - current_time) ELSE 0]
    IN  [is_allowed |-> allowed,
         info       |-> rate_limit_info,
         store      |-> [st1 EXCEPT ![key].requests = requests]]

\* the requests list of a client, empty while the client has no record
Requests(st, client_id) ==
    IF client_id \in DOMAIN st THEN st[client_id].requests ELSE <<>>

NoCheck == [client |-> "none"]

\* what a check leaves in `last`: who asked which limiter when, the client's
\* requests list before the call, and the answer
CheckRecord(self, client_id, current_time, before, r) ==
    [client |-> client_id, limiter |-> self, at |-> current_time,
     before |-> before, is_allowed |-> r.is_allowed, info |-> r.info]

LimiterInit ==
    /\ now = 0
    /\ store = << >>
    /\ last = NoCheck

\* request threads inside RateLimiter.is_allowed (Flask serves each request
\* on a thread of its own; the limiter takes no lock)
Threads == {"t1", "t2"}

IdleThread ==
    [pc |-> "idle", client_id |-> "none", current_time |-> 0,
     cleaned |-> <<>>, current_request_count |-> 0, is_allowed |-> FALSE]

ThreadsIdle ==
    /\ thr = [t \in Threads |-> IdleThread]
    /\ admitted = [c \in Clients |-> <<>>]

\* no client has been rate limited
NoRejection == pending = [c \in Clients |-> {}]

\* no response built yet
NoResponse == [status_code |-> 0, error |-> "", detail |-> "", retry_after |-> -1]

\* no summarize request in the handler
NoRequest ==
    [pc |-> "idle", client_id |-> "none", method |-> "none",
     data |-> [json |-> FALSE, keys |-> {}, url |-> <<>>, explanation_style |-> ""],
     url |-> <<>>, explanation_style |-> "", arxiv_id |-> <<>>, pdf_path |-> 0,
     created |-> {}, raised |-> "", message |-> "", detail |-> "",
     failed |-> [step |-> "", outcome |-> ""], prompt |-> "",
     calls |-> <<>>, attempts |-> <<>>, removals |-> 0, paper_text |-> 0,
     admitted |-> "pending",
     response |-> NoResponse]

RequestIdle ==
    /\ rq = NoRequest
    /\ disk = {}

\* the formatter has not been given a text
VerseIdle ==
    /\ text = <<>>
    /\ once = <<>>
    /\ twice = <<>>
    /\ passes = 0

\* no helper has been called
NotCalled == [fn |-> "none"]
HelperIdle ==
    /\ input = <<>>
    /\ output = NotCalled



-----------------------------------------------------------------------------
(* URL validation: src/backend/security.py, src/api/_utils.py.              *)
(* A URL string is a sequence of tokens: "D" is one decimal digit, " " one  *)
(* whitespace character, every other token the literal text it shows.       *)

\* the longest run of version digits written into a URL
MaxVersionDigits == 2

Schemes == {"http", "https", "ftp"}
Hosts ==
    {<<"arxiv", ".", "org">>, <<"www", ".", "arxiv", ".", "org">>,
     <<"export", ".", "arxiv", ".", "org">>, <<"evil", ".", "com">>}
Kinds == {"abs", "pdf", "list"}
Tails == {<<>>, <<"/">>, <<".", "pdf">>, <<"/", ".", "pdf">>, <<"/", "x">>}

Digits(n) == [i \in 1..n |-> "D"]

\* the URLs submitted: scheme://host/kind/<d1 digits>.<d2 digits>[v<digits>]tail,
\* with or without surrounding whitespace
UrlParts ==
    [scheme : Schemes, host : Hosts, kind : Kinds, d1 : 3..5, d2 : 3..6,
     v : BOOLEAN, vd : 0..MaxVersionDigits, tail : Tails, pad : BOOLEAN]

Render(u) ==
    LET body == <<u.scheme, "://">> \o u.host \o <<"/", u.kind, "/">>
                  \o Digits(u.d1) \o <<".">> \o Digits(u.d2)
                  \o (IF u.v THEN <<"v">> ELSE <<>>) \o Digits(u.vd) \o u.tail
    IN  IF u.pad THEN <<" ">> \o body \o <<" ">> ELSE body

\* str.strip(): drop leading and trailing whitespace
RECURSIVE LStrip(_)
LStrip(s) == IF s # <<>> /\ Head(s) = " " THEN LStrip(Tail(s)) ELSE s
RECURSIVE RStrip(_)
RStrip(s) ==
    IF s # <<>> /\ s[Len(s)] = " " THEN RStrip(SubSeq(s, 1, Len(s) - 1)) ELSE s
Strip(s) == RStrip(LStrip(s))

(* Regular-expression matching by sets of positions: each operator maps the *)
(* set P of positions the match may have reached to the positions after the *)
(* next piece of the pattern.                                               *)

\* a literal piece
Lit(s, P, w) ==
    {p + Len(w) : p \in {q \in P : q + Len(w) - 1 <= Len(s)
                                   /\ SubSeq(s, q, q + Len(w) - 1) = w}}

\* tok{lo,hi}
Rep(s, P, tok, lo, hi) ==
    UNION {{p + k : k \in {n \in lo..hi :
                              /\ p + n - 1 <= Len(s)
                              /\ \A j \in 0..(n - 1) : s[p + j] = tok}}
           : p \in P}

\* ^https?://(www\.)?arxiv\.org/(abs|pdf)/(\d{4}\.\d{4,5})(v\d+)?/?  from
\* position 1: the positions reached
ArxivPrefix(s) ==
    LET p1 == Lit(s, {1}, <<"http">>) \cup Lit(s, {1}, <<"https">>)
        p2 == Lit(s, p1, <<"://">>)
        p3 == p2 \cup Lit(s, p2, <<"www", ".">>)
        p4 == Lit(s, p3, <<"arxiv", ".", "org", "/">>)
        p5 == Lit(s, p4, <<"abs">>) \cup Lit(s, p4, <<"pdf">>)
        p6 == Lit(s, p5, <<"/">>)
        p7 == Rep(s, p6, "D", 4, 4)
        p8 == Lit(s, p7, <<".">>)
        p9 == Rep(s, p8, "D", 4, 5)
        p10 == p9 \cup Rep(s, Lit(s, p9, <<"v">>), "D", 1, Len(s))
    IN  p10 \cup Lit(s, p10, <<"/">>)

\* URLValidator.ARXIV_URL_PATTERN.match(url)
ARXIV_URL_PATTERN(s) == (Len(s) + 1) \in ArxivPrefix(s)

\* SecurityConfig.MAX_URL_LENGTH
MAX_URL_LENGTH == 2048

\* URLValidator.ALLOWED_DOMAINS
ALLOWED_DOMAINS ==
    {<<"arxiv", ".", "org">>, <<"www", ".", "arxiv", ".", "org">>,
     <<"export", ".", "arxiv", ".", "org">>}

\* urlparse(url).netloc: the text between "://" and the next "/"
RECURSIVE UpToSlash(_)
UpToSlash(s) ==
    IF s = <<>> \/ Head(s) = "/" THEN <<>> ELSE <<Head(s)>> \o UpToSlash(Tail(s))
Netloc(s) ==
    IF Len(s) >= 2 /\ s[2] = "://" THEN UpToSlash(SubSeq(s, 3, Len(s))) ELSE <<>>

\* URLValidator.validate_arxiv_url: TRUE when the cleaned URL is returned,
\* FALSE when HTTPException(400) is raised
URLValidator_validate_arxiv_url(s) ==
    IF s = <<>> THEN FALSE
    ELSE IF Len(s) > MAX_URL_LENGTH THEN FALSE
    ELSE LET u == Strip(s) IN
         IF ~ARXIV_URL_PATTERN(u) THEN FALSE
         ELSE Netloc(u) \in ALLOWED_DOMAINS

\* api/_utils.validate_arxiv_url: the same pattern followed by (\.(pdf))?$
validate_arxiv_url(s) ==
    LET u == Strip(s)
        p == ArxivPrefix(u)
    IN  (Len(u) + 1) \in (p \cup Lit(u, p, <<".", "pdf">>))

NoVerdict == [security |-> "none", utils |-> "none"]
Answered(ok) == IF ok THEN "accepted" ELSE "rejected"

UrlIdle ==
    /\ url = <<>>
    /\ verdict = NoVerdict

\* a URL is submitted
UrlInit ==
    /\ url \in {Render(u) : u \in UrlParts}
    /\ verdict = NoVerdict

\* both validators are run on it
Validate ==
    /\ verdict = NoVerdict
    /\ verdict' = [security |-> Answered(URLValidator_validate_arxiv_url(url)),
                   utils    |-> Answered(validate_arxiv_url(url))]
    /\ UNCHANGED url

\* a URL string and the two validators' answers for it
InitUrl == LimiterInit /\ ThreadsIdle /\ NoRejection /\ UrlInit /\ RequestIdle /\ VerseIdle /\ HelperIdle
NextUrl == Validate /\ UNCHANGED <<limiterVars, threadVars, requestVars, verseVars, helperVars, recoveryVars>>
SpecUrl == InitUrl /\ [][NextUrl]_vars

Init == LimiterInit /\ ThreadsIdle /\ NoRejection /\ UrlIdle /\ RequestIdle /\ VerseIdle /\ HelperIdle

\* one call rate_limiter.is_allowed(client_id)
Check(self, client_id) ==
    LET r == is_allowed(self, client_id, now, store) IN
    /\ Len(Requests(r.store, client_id)) <= MaxRecord
    /\ store' = r.store
    /\ last' = CheckRecord(self, client_id, now, Requests(store, client_id), r)
    /\ UNCHANGED now

\* time passes between calls
Tick ==
    /\ now + TimeStep <= MaxTime
    /\ now' = now + TimeStep
    /\ UNCHANGED <<store, last>>

LimiterNext ==
    \/ \E self \in Limiters, client_id \in Clients : Check(self, client_id)
    \/ Tick

Next == LimiterNext /\ UNCHANGED <<threadVars, urlVars, requestVars, verseVars, helperVars, recoveryVars>>

\* sequential calls of is_allowed through the two endpoints' limiters
Spec == Init /\ [][Next]_vars

\* one call of is_allowed, the times of the admitted calls of each client
\* being written down
LoggedCheck(self, client_id) ==
    /\ Len(admitted[client_id]) < MaxAdmitted
    /\ Check(self, client_id)
    /\ admitted' = IF is_allowed(self, client_id, now, store).is_allowed
                   THEN [admitted EXCEPT ![client_id] = Append(@, now)]
                   ELSE admitted
    /\ UNCHANGED thr

BudgetNext ==
    \/ \E client_id \in Clients : LoggedCheck(default_rate_limiter, client_id)
    \/ Tick /\ UNCHANGED threadVars

NextBudget ==
    BudgetNext /\ UNCHANGED <<urlVars, requestVars, verseVars, helperVars, recoveryVars>>

\* sequential calls of default_rate_limiter.is_allowed and the history of
\* the admitted ones
SpecBudget == Init /\ [][NextBudget]_vars

\* one call of is_allowed through either endpoint; a client keeps the reset
\* time of its first rejected summarize check until a summarize check of it
\* is admitted
RecoveryCheck(self, client_id) ==
    LET r == is_allowed(self, client_id, now, store) IN
    /\ Check(self, client_id)
    /\ pending' = IF self # default_rate_limiter THEN pending
                  ELSE IF r.is_allowed THEN [pending EXCEPT ![client_id] = {}]
                  ELSE IF pending[client_id] = {}
                       THEN [pending EXCEPT ![client_id] = {r.info.reset}]
                  ELSE pending

RecoveryNext ==
    \/ \E self \in Limiters, client_id \in Clients : RecoveryCheck(self, client_id)
    \/ Tick /\ UNCHANGED pending

NextRecovery ==
    RecoveryNext
    /\ UNCHANGED <<threadVars, urlVars, requestVars, verseVars, helperVars>>

\* sequential calls of is_allowed through the two endpoints' limiters, each
\* client remembering the reset time it was given
SpecRecovery == Init /\ [][NextRecovery]_vars

-----------------------------------------------------------------------------
(* The summarize handler: src/api/app.py, POST/OPTIONS /api/summarize *)

Methods == {"POST", "OPTIONS"}

\* the keys of style_prompts in get_system_prompt
style_prompts ==
    {"five-year-old", "pop-culture", "anime", "sports", "food", "gaming",
     "marvel", "harry-potter", "brain-rot", "reddit", "christopher-nolan",
     "eminem", "shakespearean"}

\* get_system_prompt: the style whose instruction goes into the prompt
get_system_prompt(explanation_style) ==
    IF explanation_style \in style_prompts THEN explanation_style
    ELSE "five-year-old"

\* allowed_styles of SecureArxivRequest.validate_explanation_style
allowed_styles ==
    {"five-year-old", "pop-culture", "anime", "sports", "food", "gaming",
     "marvel", "harry-potter", "brain-rot", "reddit", "shakespearean"}

\* the explanation_style values sent by clients
SentStyles == {"five-year-old", "eminem", "klingon"}

\* the url values sent by clients
SentUrls ==
    {<<"https", "://", "arxiv", ".", "org", "/", "abs", "/">>
        \o Digits(4) \o <<".">> \o Digits(5),
     <<"https", "://", "evil", ".", "com", "/", "abs", "/">>
        \o Digits(4) \o <<".">> \o Digits(5)}

\* request.get_json(): no JSON at all, or a JSON object with some of the keys
Bodies ==
    {[json |-> FALSE, keys |-> {}, url |-> <<>>, explanation_style |-> ""]}
    \cup {[json |-> TRUE, keys |-> {}, url |-> <<>>, explanation_style |-> ""]}
    \cup {[json |-> TRUE, keys |-> {"url"}, url |-> u, explanation_style |-> ""]
            : u \in SentUrls}
    \cup {[json |-> TRUE, keys |-> {"explanation_style"}, url |-> <<>>,
           explanation_style |-> e] : e \in SentStyles}
    \cup {[json |-> TRUE, keys |-> {"url", "explanation_style"}, url |-> u,
           explanation_style |-> e] : u \in SentUrls, e \in SentStyles}

\* re.search(r'(?:abs|pdf)/(\d{4}\.\d{4,5})', url): group 1 of the leftmost
\* match, <<>> for None
extract_arxiv_id(s) ==
    LET After(i) ==
            LET p1 == Lit(s, {i}, <<"abs", "/">>) \cup Lit(s, {i}, <<"pdf", "/">>)
                p2 == Lit(s, Rep(s, p1, "D", 4, 4), <<".">>)
            IN  Rep(s, p2, "D", 4, 5)
        starts == {i \in 1..Len(s) : After(i) # {}}
    IN  IF starts = {} THEN <<>>
        ELSE LET i == CHOOSE j \in starts : \A k \in starts : j <= k
                 e == CHOOSE j \in After(i) : \A k \in After(i) : j >= k
             IN  SubSeq(s, i + 2, e - 1)

\* the texts of the exceptions the collaborators raise
UpstreamErrors == {"Connection timed out", "HTTP Error 503"}

\* what the collaborators can do: an outcome and, for an exception, its text
Outcomes(kinds, raising) ==
    {[kind |-> k, e |-> ""] : k \in kinds}
    \cup {[kind |-> k, e |-> e] : k \in raising, e \in UpstreamErrors}
FetchOutcomes == Outcomes({"ok", "StopIteration"}, {"Exception"})
DownloadOutcomes ==
    Outcomes({"arxiv", "requests", "requests_versioned"},
             {"failed", "tempfile_error"})

\* download_paper_pdf: the download attempts it makes, in order: the arxiv
\* library, then, if that raised, a direct GET of each of pdf_urls until one
\* succeeds
download_attempts_ThirdUrl(kind) ==
    CASE kind = "tempfile_error" -> <<>>
      [] kind = "arxiv" -> <<"paper.download_pdf">>
      [] kind = "requests" -> <<"paper.download_pdf", "requests.get">>
      [] kind \in {"requests_versioned", "failed"} ->
             <<"paper.download_pdf", "requests.get", "requests.get",
               "requests.get">>
download_attempts(kind) ==
    CASE kind = "tempfile_error" -> <<>>
      [] kind = "arxiv" -> <<"paper.download_pdf">>
      [] kind = "requests" -> <<"paper.download_pdf", "requests.get">>
      [] kind \in {"requests_versioned", "failed"} ->
             <<"paper.download_pdf", "requests.get", "requests.get">>

\* Config.MAX_PDF_SIZE, in bytes, and Config.MIN_TEXT_LENGTH, in characters
MAX_PDF_SIZE == 10 * 1024 * 1024
MIN_TEXT_LENGTH == 500

\* the downloaded PDFs: the size of the file, the number of characters its
\* pages hold, and the text of the exception PyMuPDF raises on it, if any
Pdfs ==
    [size : {MAX_PDF_SIZE, MAX_PDF_SIZE + 1},
     chars : {MIN_TEXT_LENGTH - 1, MIN_TEXT_LENGTH},
     e : {""} \cup UpstreamErrors]

\* extract_text_from_pdf: the size check, the extraction, the length check
extract_text_from_pdf(pdf) ==
    IF pdf.size > MAX_PDF_SIZE THEN [kind |-> "too_large", e |-> ""]
    ELSE IF pdf.e # "" THEN [kind |-> "fitz_error", e |-> pdf.e]
    ELSE IF pdf.chars < MIN_TEXT_LENGTH THEN [kind |-> "insufficient", e |-> ""]
    ELSE [kind |-> "ok", e |-> ""]
GenerateOutcomes ==
    Outcomes({"ok", "empty", "invalid_format", "missing_field"}, {"api_error"})

Files == 1..MaxFiles

\* the handler moves to its next statement
Goto(r, pc, call) == [r EXCEPT !.pc = pc, !.calls = Append(@, call)]

\* `return response` from the handler
ReturnResponse(r, call, status_code, error, retry_after) ==
    [r EXCEPT !.pc = "done", !.calls = Append(@, call),
              !.response = [status_code |-> status_code, error |-> error,
                            detail |-> "", retry_after |-> retry_after]]

\* the exception leaves the handler: no except clause builds a response
Raise_Uncaught(r, call, kind, message, detail, outcome) ==
    [r EXCEPT !.pc = "finally", !.calls = Append(@, call), !.raised = kind,
              !.message = message, !.detail = detail,
              !.failed = [step |-> call, outcome |-> outcome.kind]]
\* an exception raised inside the inner try block by the step `call`:
\* str(exception) is `message` followed by `detail`
Raise(r, call, kind, message, detail, outcome) ==
    [r EXCEPT !.pc = "except", !.calls = Append(@, call), !.raised = kind,
              !.message = message, !.detail = detail,
              !.failed = [step |-> call, outcome |-> outcome.kind]]

\* a request enters the handler
Arrive(client_id, method, data) ==
    /\ rq.pc \in {"idle", "done"}
    /\ Cardinality(disk) < MaxFiles
    /\ rq' = [NoRequest EXCEPT !.pc = "apply_rate_limit", !.client_id = client_id,
                               !.method = method, !.data = data]
    /\ UNCHANGED <<limiterVars, disk>>

\* where the handler goes after apply_rate_limit
AfterRateLimitNoReturn(r, allowed, info) ==
    [r EXCEPT !.pc = "preflight", !.calls = Append(@, "apply_rate_limit"),
              !.admitted = IF allowed THEN "admitted" ELSE "rejected"]
AfterRateLimit(r, allowed, info) ==
    IF ~allowed
    THEN [ReturnResponse(r, "apply_rate_limit", 429, "Rate limit exceeded", info.retry_after)
            EXCEPT !.admitted = "rejected"]
    ELSE [r EXCEPT !.pc = "preflight", !.calls = Append(@, "apply_rate_limit"),
                   !.admitted = "admitted"]

\* is_allowed, rate_limit_info, rate_limit_headers = apply_rate_limit(request)
ApplyRateLimit ==
    LET r == is_allowed(default_rate_limiter, rq.client_id, now, store) IN
    /\ rq.pc = "apply_rate_limit"
    /\ store' = r.store
    /\ rq' = AfterRateLimit(rq, r.is_allowed, r.info)
    /\ UNCHANGED <<now, last, disk>>

\* CORS preflight
Preflight ==
    /\ rq.pc = "preflight"
    /\ rq' = IF rq.method = "OPTIONS"
             THEN ReturnResponse(rq, "preflight", 200, "", -1)
             ELSE Goto(rq, "get_json", "preflight")
    /\ UNCHANGED <<limiterVars, disk>>

\* data = request.get_json(); an empty object counts as no data
GetJson ==
    /\ rq.pc = "get_json"
    /\ rq' = IF ~rq.data.json \/ rq.data.keys = {}
             THEN ReturnResponse(rq, "get_json", 400, "Invalid JSON in request body", -1)
             ELSE Goto(rq, "validate", "get_json")
    /\ UNCHANGED <<limiterVars, disk>>

\* the 'url' field, the style default, validate_arxiv_url, extract_arxiv_id
ValidateRequest ==
    LET u == rq.data.url
        explanation_style ==
            IF "explanation_style" \in rq.data.keys
            THEN rq.data.explanation_style ELSE "five-year-old"
    IN
    /\ rq.pc = "validate"
    /\ rq' = IF "url" \notin rq.data.keys
             THEN ReturnResponse(rq, "url_field", 400, "Missing 'url' field", -1)
             ELSE IF ~validate_arxiv_url(u)
             THEN ReturnResponse([rq EXCEPT !.url = u, !.explanation_style = explanation_style],
                          "validate_arxiv_url", 400, "Invalid arXiv URL format", -1)
             ELSE IF extract_arxiv_id(u) = <<>>
             THEN ReturnResponse([rq EXCEPT !.url = u, !.explanation_style = explanation_style],
                          "extract_arxiv_id", 400,
                          "Could not extract arXiv ID from URL", -1)
             ELSE [rq EXCEPT !.pc = "fetch",
                             !.calls = @ \o <<"validate_arxiv_url", "extract_arxiv_id">>,
                             !.url = u, !.explanation_style = explanation_style,
                             !.arxiv_id = extract_arxiv_id(u)]
    /\ UNCHANGED <<limiterVars, disk>>

\* paper = fetch_paper_from_arxiv(arxiv_id)
Fetch(outcome) ==
    /\ rq.pc = "fetch"
    /\ rq' = CASE outcome.kind = "ok" ->
                     Goto(rq, "download", "fetch_paper_from_arxiv")
                [] outcome.kind = "StopIteration" ->
                     Raise(rq, "fetch_paper_from_arxiv", "ValueError",
                           "Paper with ID {arxiv_id} not found on arXiv", "",
                           outcome)
                [] outcome.kind = "Exception" ->
                     Raise(rq, "fetch_paper_from_arxiv", "ValueError",
                           "Failed to fetch paper from arXiv: ", outcome.e,
                           outcome)
    /\ UNCHANGED <<limiterVars, disk>>

\* pdf_path = download_paper_pdf(paper): NamedTemporaryFile(delete=False)
\* creates a file under an unused name, then the arxiv library and, if it
\* fails, direct requests write the PDF into it
Download(outcome) ==
    LET f == CHOOSE g \in Files : g \notin disk IN
    /\ rq.pc = "download"
    /\ IF outcome.kind = "tempfile_error"
       THEN /\ rq' = Raise(rq, "download_paper_pdf", "ValueError",
                           "Failed to download PDF: ", outcome.e, outcome)
            /\ UNCHANGED disk
       ELSE /\ disk' = disk \cup {f}
            /\ rq' = IF outcome.kind = "failed"
                     THEN Raise([rq EXCEPT !.created = {f},
                                           !.attempts = download_attempts(outcome.kind)],
                                "download_paper_pdf",
                                "ValueError",
                                "Failed to download PDF: All download methods failed. Last arxiv error: ",
                                outcome.e, outcome)
                     ELSE [Goto(rq, "extract", "download_paper_pdf")
                             EXCEPT !.created = {f}, !.pdf_path = f,
                                    !.attempts = download_attempts(outcome.kind)]
    /\ UNCHANGED limiterVars

\* paper_text = extract_text_from_pdf(pdf_path)
Extract(pdf) ==
    LET outcome == extract_text_from_pdf(pdf) IN
    /\ rq.pc = "extract"
    /\ rq' = CASE outcome.kind = "ok" ->
                     Goto(rq, "generate", "extract_text_from_pdf")
                [] outcome.kind = "too_large" ->
                     Raise([rq EXCEPT !.removals = @ + 1],
                           "extract_text_from_pdf", "ValueError",
                           "PDF file too large", "", outcome)
                [] outcome.kind = "insufficient" ->
                     Raise(rq, "extract_text_from_pdf", "ValueError",
                           "Insufficient text extracted from PDF", "", outcome)
                [] outcome.kind = "fitz_error" ->
                     Raise(rq, "extract_text_from_pdf", "Exception", "",
                           outcome.e, outcome)
    /\ disk' = IF outcome.kind = "too_large" THEN disk \ {rq.pdf_path} ELSE disk
    /\ UNCHANGED limiterVars

\* result = generate_paper_summary(paper_text, explanation_style)
Generate(outcome) ==
    LET r == [rq EXCEPT !.prompt = get_system_prompt(rq.explanation_style)] IN
    /\ rq.pc = "generate"
    /\ rq' = CASE outcome.kind = "ok" ->
                     IF rq.explanation_style = "eminem"
                     THEN [r EXCEPT !.pc = "respond",
                                    !.calls = @ \o <<"generate_paper_summary",
                                                     "validate_required_fields",
                                                     "format_eminem_response">>]
                     ELSE [r EXCEPT !.pc = "respond",
                                    !.calls = @ \o <<"generate_paper_summary",
                                                     "validate_required_fields">>]
                [] outcome.kind = "empty" ->
                     Raise(r, "generate_paper_summary", "ValueError",
                           "Empty response from AI service", "", outcome)
                [] outcome.kind = "invalid_format" ->
                     Raise(r, "generate_paper_summary", "ValueError",
                           "Invalid response format from AI service", "", outcome)
                [] outcome.kind = "missing_field" ->
                     Raise([r EXCEPT !.calls = Append(@, "generate_paper_summary")],
                           "validate_required_fields", "ValueError",
                           "Missing required field: {field}", "", outcome)
                [] outcome.kind = "api_error" ->
                     Raise(r, "generate_paper_summary", "Exception", "",
                           outcome.e, outcome)
    /\ UNCHANGED <<limiterVars, disk>>

\* the success response
Respond ==
    /\ rq.pc = "respond"
    /\ rq' = [rq EXCEPT !.pc = "finally",
                        !.response = [status_code |-> 200, error |-> "",
                                      detail |-> "", retry_after |-> -1]]
    /\ UNCHANGED <<limiterVars, disk>>

\* except ValueError: 400 with str(ve); except Exception: 500 with
\* "Processing failed: " and str(e)
Except ==
    /\ rq.pc = "except"
    /\ rq' = [rq EXCEPT !.pc = "finally",
                        !.response =
                            IF rq.raised = "ValueError"
                            THEN [status_code |-> 400, error |-> rq.message,
                                  detail |-> rq.detail, retry_after |-> -1]
                            ELSE [status_code |-> 500,
                                  error |-> "Processing failed: ",
                                  detail |-> rq.detail, retry_after |-> -1]]
    /\ UNCHANGED <<limiterVars, disk>>

\* finally: remove the downloaded PDF if pdf_path is set and the file exists
\* (os.remove of an existing temporary file is taken to succeed)
Finally ==
    /\ rq.pc = "finally"
    /\ IF rq.pdf_path # 0 /\ rq.pdf_path \in disk
       THEN /\ disk' = disk \ {rq.pdf_path}
            /\ rq' = Goto([rq EXCEPT !.removals = @ + 1], "done", "os.remove")
       ELSE /\ UNCHANGED disk
            /\ rq' = [rq EXCEPT !.pc = "done"]
    /\ UNCHANGED limiterVars

RequestNext ==
    \/ \E client_id \in Clients, method \in Methods, data \in Bodies :
          Arrive(client_id, method, data)
    \/ ApplyRateLimit
    \/ Preflight
    \/ GetJson
    \/ ValidateRequest
    \/ \E outcome \in FetchOutcomes : Fetch(outcome)
    \/ \E outcome \in DownloadOutcomes : Download(outcome)
    \/ \E pdf \in Pdfs : Extract(pdf)
    \/ \E outcome \in GenerateOutcomes : Generate(outcome)
    \/ Respond
    \/ Except
    \/ Finally

\* summarize requests handled one after the other, all within one window of
\* the rate limiter
SpecRequest ==
    Init /\ [][RequestNext /\ UNCHANGED <<threadVars, urlVars, verseVars, helperVars, recoveryVars>>]_vars

\* a step of the handler on the request it has accepted
HandlerStep ==
    /\ rq.pc \notin {"idle", "done"}
    /\ RequestNext
    /\ UNCHANGED <<threadVars, urlVars, verseVars, helperVars, recoveryVars>>

\* the same requests, with a handler that goes on once every collaborator
\* call has returned or raised
SpecRequestFair == SpecRequest /\ WF_vars(HandlerStep)

-----------------------------------------------------------------------------
(* The monolithic handler: src/backend/main.py, POST /summarize.  It runs   *)
(* on the same request record and the same disk as the handler above, with  *)
(* its own steps, limits and status codes.                                   *)

\* the requests that passed SecureArxivRequest: its validators accept the
\* URLs URLValidator accepts and the styles of allowed_styles
ValidatedBodies ==
    {[json |-> TRUE, keys |-> {"url", "explanation_style"}, url |-> u,
      explanation_style |-> e] :
        u \in {v \in SentUrls : URLValidator_validate_arxiv_url(v)},
        e \in allowed_styles}

\* raise HTTPException(status_code, detail) where no finally block is pending
HTTPException(r, call, status_code, detail, outcome) ==
    [r EXCEPT !.pc = "done", !.calls = Append(@, call),
              !.raised = "HTTPException",
              !.failed = [step |-> call, outcome |-> outcome],
              !.response = [status_code |-> status_code, error |-> detail,
                            detail |-> "", retry_after |-> -1]]

\* the size limit and the text minimum written into summarize_paper
max_pdf_size == 50 * 1024 * 1024
min_paper_text == 500

\* the PDFs paper.download_pdf() leaves on disk
DownloadedPdfs ==
    [size : {max_pdf_size, max_pdf_size + 1},
     chars : {min_paper_text - 1, min_paper_text},
     e : {""} \cup UpstreamErrors]

\* a validated request enters summarize_paper
MainArrive(client_id, data) ==
    /\ rq.pc \in {"idle", "done"}
    /\ Cardinality(disk) < MaxFiles
    /\ rq' = [NoRequest EXCEPT !.pc = "main_validate", !.client_id = client_id,
                               !.method = "POST", !.data = data]
    /\ UNCHANGED <<limiterVars, disk>>

\* URLValidator.validate_arxiv_url and the arXiv id regex
MainValidate ==
    LET u == rq.data.url
        r == [rq EXCEPT !.url = u, !.explanation_style = rq.data.explanation_style]
    IN
    /\ rq.pc = "main_validate"
    /\ rq' = IF ~URLValidator_validate_arxiv_url(u)
             THEN HTTPException(r, "validate_arxiv_url", 400,
                                "Invalid arXiv URL format", "invalid")
             ELSE IF extract_arxiv_id(Strip(u)) = <<>>
             THEN HTTPException(r, "extract_arxiv_id", 400,
                                "Could not extract valid arXiv ID from URL", "invalid")
             ELSE [r EXCEPT !.pc = "main_fetch",
                            !.calls = @ \o <<"validate_arxiv_url", "extract_arxiv_id">>,
                            !.arxiv_id = extract_arxiv_id(Strip(u))]
    /\ UNCHANGED <<limiterVars, disk>>

\* paper = next(arxiv.Search(id_list=[arxiv_id]).results())
MainFetch(outcome) ==
    /\ rq.pc = "main_fetch"
    /\ rq' = CASE outcome.kind = "ok" ->
                     Goto(rq, "main_download", "fetch_paper_from_arxiv")
                [] outcome.kind = "StopIteration" ->
                     HTTPException(rq, "fetch_paper_from_arxiv", 404,
                                   "Paper with ID {arxiv_id} not found on arXiv",
                                   outcome.kind)
                [] outcome.kind = "Exception" ->
                     HTTPException(rq, "fetch_paper_from_arxiv", 502,
                                   "Failed to fetch paper from arXiv", outcome.kind)
    /\ UNCHANGED <<limiterVars, disk>>

\* an exception inside the download-and-extract try block: `except Exception`
\* replaces it, HTTPException(413) included, by HTTPException(500), which is
\* raised once the finally block has run
FailedToProcess(r, call, outcome) ==
    [r EXCEPT !.pc = "main_finally", !.calls = Append(@, call),
              !.raised = "HTTPException",
              !.failed = [step |-> call, outcome |-> outcome],
              !.response = [status_code |-> 500, error |-> "Failed to process PDF",
                            detail |-> "", retry_after |-> -1]]

\* pdf_path = paper.download_pdf(): pdf_path is bound only if it returns
MainDownload(ok) ==
    LET f == CHOOSE g \in Files : g \notin disk IN
    /\ rq.pc = "main_download"
    /\ IF ok
       THEN /\ disk' = disk \cup {f}
            /\ rq' = [Goto(rq, "main_extract", "download_paper_pdf")
                        EXCEPT !.created = {f}, !.pdf_path = f,
                               !.attempts = <<"paper.download_pdf">>]
       ELSE /\ UNCHANGED disk
            /\ rq' = FailedToProcess([rq EXCEPT !.attempts = <<"paper.download_pdf">>],
                                     "download_paper_pdf", "failed")
    /\ UNCHANGED limiterVars

\* the size check, which removes an oversized file, and the text extraction
MainExtract(pdf) ==
    /\ rq.pc = "main_extract"
    /\ IF pdf.size > max_pdf_size
       THEN /\ disk' = disk \ {rq.pdf_path}
            /\ rq' = FailedToProcess([rq EXCEPT !.removals = @ + 1],
                                     "extract_text_from_pdf", "too_large")
       ELSE /\ UNCHANGED disk
            /\ rq' = IF pdf.e # ""
                     THEN FailedToProcess(rq, "extract_text_from_pdf", "fitz_error")
                     ELSE [Goto(rq, "main_finally", "extract_text_from_pdf")
                             EXCEPT !.paper_text = pdf.chars]
    /\ UNCHANGED limiterVars

\* finally: os.remove(pdf_path) whenever pdf_path is bound, any error of it
\* swallowed by the bare except; then the pending exception, or the length
\* check on the extracted text
MainFinally ==
    LET r == IF rq.pdf_path # 0
             THEN [rq EXCEPT !.removals = @ + 1, !.calls = Append(@, "os.remove")]
             ELSE rq
    IN
    /\ rq.pc = "main_finally"
    /\ disk' = disk \ {rq.pdf_path}
    /\ rq' = IF rq.raised # "" THEN [r EXCEPT !.pc = "done"]
             ELSE IF rq.paper_text < min_paper_text
             THEN [r EXCEPT !.pc = "done", !.raised = "HTTPException",
                            !.failed = [step |-> "extract_text_from_pdf",
                                        outcome |-> "insufficient"],
                            !.response = [status_code |-> 422,
                                          error |-> "Insufficient text extracted from PDF",
                                          detail |-> "", retry_after |-> -1]]
             ELSE [r EXCEPT !.pc = "main_generate"]
    /\ UNCHANGED limiterVars

\* client.models.generate_content and the checks on its response
MainGenerate(outcome) ==
    LET r == [rq EXCEPT !.prompt = get_system_prompt(rq.explanation_style)] IN
    /\ rq.pc = "main_generate"
    /\ rq' = CASE outcome.kind = "ok" ->
                     [r EXCEPT !.pc = "done",
                               !.calls = @ \o <<"generate_paper_summary",
                                                "validate_required_fields">>,
                               !.response = [status_code |-> 200, error |-> "",
                                             detail |-> "", retry_after |-> -1]]
                [] outcome.kind = "api_error" ->
                     HTTPException(r, "generate_paper_summary", 502,
                                   "AI service temporarily unavailable", outcome.kind)
                [] outcome.kind = "empty" ->
                     HTTPException(r, "generate_paper_summary", 502,
                                   "Empty response from AI service", outcome.kind)
                [] outcome.kind \in {"invalid_format", "missing_field"} ->
                     HTTPException([r EXCEPT !.calls = Append(@, "generate_paper_summary")],
                                   "validate_required_fields", 502,
                                   "Invalid response format from AI service",
                                   outcome.kind)
    /\ UNCHANGED <<limiterVars, disk>>

MainNext ==
    \/ \E client_id \in Clients, data \in ValidatedBodies : MainArrive(client_id, data)
    \/ MainValidate
    \/ \E outcome \in FetchOutcomes : MainFetch(outcome)
    \/ \E ok \in BOOLEAN : MainDownload(ok)
    \/ \E pdf \in DownloadedPdfs : MainExtract(pdf)
    \/ MainFinally
    \/ \E outcome \in GenerateOutcomes : MainGenerate(outcome)

\* requests to backend/main.py handled one after the other
NextMain ==
    MainNext /\ UNCHANGED <<threadVars, urlVars, verseVars, helperVars, recoveryVars>>
SpecMain == Init /\ [][NextMain]_vars

-----------------------------------------------------------------------------
(* The Eminem verse formatter: format_eminem_response.add_rap_formatting,    *)
(* src/api/app.py                                                            *)
(* A text is a sequence of tokens: "w" is a word of WordLen letters, " " one *)
(* whitespace character, ".", "!" and "?" themselves, and LINEBREAK the      *)
(* separator string.                                                         *)

LINEBREAK == "|||LINEBREAK|||"

TokenLen(c) ==
    CASE c = "w" -> WordLen
      [] c = LINEBREAK -> 15
      [] OTHER -> 1

\* the texts given to the formatter
Alphabet == {"w", " ", ".", "?", LINEBREAK}
Texts == UNION {[1..n -> Alphabet] : n \in 0..MaxTextLen}

\* "|||LINEBREAK|||" in s
HasMarker(s) == \E i \in DOMAIN s : s[i] = LINEBREAK

\* the character class [.!?]
IsPunct(c) == c \in {".", "!", "?"}

RECURSIVE DropPunct(_)
DropPunct(s) == IF s # <<>> /\ IsPunct(Head(s)) THEN DropPunct(Tail(s)) ELSE s

\* re.split(r'[.!?]+', s): the pieces between maximal runs of punctuation,
\* empty pieces included
RECURSIVE re_split(_)
re_split(s) ==
    IF s = <<>> THEN <<<<>>>>
    ELSE IF IsPunct(Head(s)) THEN <<<<>>>> \o re_split(DropPunct(s))
    ELSE LET r == re_split(Tail(s)) IN <<<<Head(s)>> \o Head(r)>> \o Tail(r)

\* sep.join(pieces)
RECURSIVE Join(_, _)
Join(pieces, sep) ==
    IF pieces = <<>> THEN <<>>
    ELSE IF Len(pieces) = 1 THEN Head(pieces)
    ELSE Head(pieces) \o sep \o Join(Tail(pieces), sep)

\* the separator goes before the sentence at index i of the split
BreakBefore(i) == i > 0 /\ i % 2 = 0

\* the for loop over enumerate(sentences), from index i on: formatted_lines
RECURSIVE formatted_lines(_, _)
formatted_lines(sentences, i) ==
    IF i > Len(sentences) - 1 THEN <<>>
    ELSE LET sentence == Strip(sentences[i + 1]) IN
         IF sentence = <<>> THEN formatted_lines(sentences, i + 1)
         ELSE (IF BreakBefore(i) THEN <<<<LINEBREAK>>>> ELSE <<>>)
              \o <<sentence>>
              \o (IF i < Len(sentences) - 1 THEN <<<<"!">>>> ELSE <<>>)
              \o formatted_lines(sentences, i + 1)

\* str.split(): the maximal runs of non-whitespace
RECURSIVE split(_)
split(s) ==
    LET t == LStrip(s) IN
    IF t = <<>> THEN <<>>
    ELSE LET r == split(Tail(t)) IN
         IF Len(t) > 1 /\ t[2] # " " THEN <<<<Head(t)>> \o Head(r)>> \o Tail(r)
         ELSE <<<<Head(t)>>>> \o r

RECURSIVE len(_)
len(word) == IF word = <<>> THEN 0 ELSE TokenLen(Head(word)) + len(Tail(word))

\* the line is closed after this word
ClosesLine(char_count, word) == char_count > 80 /\ IsPunct(word[Len(word)])

\* the for loop over words: the lines collected
RECURSIVE wrap(_, _, _, _)
wrap(words, lines, current_line, char_count) ==
    IF words = <<>>
    THEN IF current_line # <<>> THEN Append(lines, Join(current_line, <<" ">>))
         ELSE lines
    ELSE LET word == Head(words)
             line == Append(current_line, word)
             count == char_count + len(word) + 1
         IN  IF ClosesLine(count, word)
             THEN wrap(Tail(words), Append(lines, Join(line, <<" ">>)), <<>>, 0)
             ELSE wrap(Tail(words), lines, line, count)

add_rap_formatting(s) ==
    IF s = <<>> THEN s
    ELSE IF HasMarker(s) THEN s
    ELSE LET result == Join(formatted_lines(re_split(s), 0), <<" ">>) IN
         IF ~HasMarker(result)
         THEN Join(wrap(split(result), <<>>, <<>>, 0), <<LINEBREAK>>)
         ELSE result

\* a text is handed to the formatter
VerseInit ==
    /\ text \in Texts
    /\ once = <<>>
    /\ twice = <<>>
    /\ passes = 0

\* the formatter is applied to the text
Format ==
    /\ passes = 0
    /\ once' = add_rap_formatting(text)
    /\ passes' = 1
    /\ UNCHANGED <<text, twice>>

\* the formatter is applied to its own output
FormatAgain ==
    /\ passes = 1
    /\ twice' = add_rap_formatting(once)
    /\ passes' = 2
    /\ UNCHANGED <<text, once>>

VerseNext == Format \/ FormatAgain

\* a text and the formatter's output for it, formatted once and twice
InitVerse ==
    LimiterInit /\ ThreadsIdle /\ NoRejection /\ UrlIdle /\ RequestIdle /\ VerseInit /\ HelperIdle
SpecVerse ==
    InitVerse
    /\ [][VerseNext /\ UNCHANGED <<limiterVars, threadVars, urlVars, requestVars, helperVars, recoveryVars>>]_vars

-----------------------------------------------------------------------------
(* The response validator: clean_json_response, safe_json_loads and          *)
(* validate_required_fields of src/api/_utils.py, as generate_paper_summary  *)
(* calls them.                                                               *)
(* A response text is a sequence of tokens: "tick" is one backtick, "json"  *)
(* the word json, " " one whitespace character (blank or newline), "q" a    *)
(* double quote, "k" a quoted key with its colon, "x" any other character,  *)
(* "{" and "}" themselves.                                                  *)

\* the text between the quotes of a JSON string
StringChars == {"tick", "json", " ", "x"}
Contents == UNION {[1..n -> StringChars] : n \in 0..MaxContentLen}

\* the payloads the AI service returns: a string, an object with one string
\* member, an empty object, an unterminated string, with or without
\* whitespace around them
Shapes == {"string", "object", "empty", "unterminated"}
Shape(kind, content) ==
    CASE kind = "string" -> <<"q">> \o content \o <<"q">>
      [] kind = "object" -> <<"{", "k", "q">> \o content \o <<"q", "}">>
      [] kind = "empty" -> <<"{", " ", "}">>
      [] kind = "unterminated" -> <<"q">> \o content
Payloads ==
    {(IF pad THEN <<" ">> ELSE <<>>) \o Shape(kind, content)
        \o (IF pad THEN <<" ">> ELSE <<>>)
       : pad \in BOOLEAN, kind \in Shapes, content \in Contents}

\* the payload inside a ```json opening fence and a ``` closing fence, each
\* on a line of its own or written right against the payload
Fenced(payload, newline) ==
    LET nl == IF newline THEN <<" ">> ELSE <<>> IN
    <<"tick", "tick", "tick", "json">> \o nl \o payload \o nl \o <<"tick", "tick", "tick">>

\* str.replace(old, ''): the occurrences of old are removed left to right
RECURSIVE Remove(_, _)
Remove(s, old) ==
    IF Len(s) < Len(old) THEN s
    ELSE IF SubSeq(s, 1, Len(old)) = old
         THEN Remove(SubSeq(s, Len(old) + 1, Len(s)), old)
         ELSE <<Head(s)>> \o Remove(Tail(s), old)

\* the closing fence is removed before the opening one
clean_json_response_ClosingFirst(response_text) ==
    Strip(Remove(Remove(Strip(response_text), <<"tick", "tick", "tick">>),
                 <<"tick", "tick", "tick", "json">>))
\* response_text.strip().replace('```json', '').replace('```', '').strip()
clean_json_response(response_text) ==
    Strip(Remove(Remove(Strip(response_text), <<"tick", "tick", "tick", "json">>),
                 <<"tick", "tick", "tick">>))

\* the position of the first "q" of s, 0 if there is none
FirstQuote(s) ==
    IF \E i \in DOMAIN s : s[i] = "q"
    THEN CHOOSE i \in DOMAIN s : s[i] = "q" /\ \A j \in 1..(i - 1) : s[j] # "q"
    ELSE 0

\* the decoder reads one JSON value at the head of s: the value read and the
\* text left, or a failure
RECURSIVE Decode(_)
Decode(s) ==
    IF s = <<>> THEN [ok |-> FALSE, value |-> <<>>, rest |-> <<>>]
    ELSE IF Head(s) = "q"
    THEN LET j == FirstQuote(Tail(s)) IN
         IF j = 0 THEN [ok |-> FALSE, value |-> <<>>, rest |-> <<>>]
         ELSE [ok |-> TRUE, value |-> <<"str">> \o SubSeq(Tail(s), 1, j - 1),
               rest |-> SubSeq(Tail(s), j + 1, Len(s) - 1)]
    ELSE IF Head(s) = "{"
    THEN LET t == LStrip(Tail(s)) IN
         IF t # <<>> /\ Head(t) = "}"
         THEN [ok |-> TRUE, value |-> <<"dict">>, rest |-> Tail(t)]
         ELSE IF t # <<>> /\ Head(t) = "k"
         THEN LET v == Decode(LStrip(Tail(t)))
                  u == LStrip(v.rest)
              IN  IF v.ok /\ u # <<>> /\ Head(u) = "}"
                  THEN [ok |-> TRUE, value |-> <<"dict", "k">> \o v.value,
                        rest |-> Tail(u)]
                  ELSE [ok |-> FALSE, value |-> <<>>, rest |-> <<>>]
         ELSE [ok |-> FALSE, value |-> <<>>, rest |-> <<>>]
    ELSE [ok |-> FALSE, value |-> <<>>, rest |-> <<>>]

\* safe_json_loads: json.loads(json_string), None when it raises
\* JSONDecodeError
safe_json_loads(json_string) ==
    LET r == Decode(LStrip(json_string)) IN
    IF r.ok /\ LStrip(r.rest) = <<>> THEN r.value ELSE <<"None">>

\* a response text comes back from the AI service
JsonInit ==
    /\ input \in Payloads
    /\ output = NotCalled

\* the payload is cleaned and parsed, bare and inside a fence
CleanAndParse ==
    /\ output = NotCalled
    /\ \E newline \in BOOLEAN :
         output' = [fn |-> "clean_json_response",
                    newline |-> newline,
                    bare |-> safe_json_loads(clean_json_response(input)),
                    fenced |-> safe_json_loads(
                                 clean_json_response(Fenced(input, newline)))]
    /\ UNCHANGED input

InitJson ==
    LimiterInit /\ ThreadsIdle /\ NoRejection /\ UrlIdle /\ RequestIdle /\ VerseIdle /\ JsonInit
NextJson ==
    CleanAndParse
    /\ UNCHANGED <<limiterVars, threadVars, urlVars, requestVars, verseVars, recoveryVars>>

\* a response text, cleaned and parsed
SpecJson == InitJson /\ [][NextJson]_vars

\* C11: fence insensitivity: cleaning and parsing a payload wrapped in a
\* ```json opening fence and a ``` closing fence gives the same outcome, the
\* same parsed structure or the same failure, as cleaning and parsing the
\* bare payload.
C11_FenceInsensitive ==
    output # NotCalled => output.fenced = output.bare

\* C11 witness: an object whose string member holds text, fenced on lines of
\* its own, was parsed to the same structure as the bare object
C11_Witness ==
    /\ output # NotCalled
    /\ output.newline
    /\ output.fenced = <<"dict", "k", "str", "x", " ", "x">>
    /\ output.bare = output.fenced

\* required_fields of generate_paper_summary, in the order of the list
required_fields ==
    <<"gist", "analogy", "experimental_details", "key_findings",
      "why_it_matters", "key_terms">>

\* the top-level keys a parsed summary can have
SummaryKeys == {required_fields[i] : i \in DOMAIN required_fields} \cup {"figures"}

Returned(value) ==
    [fn |-> "validate_required_fields", raised |-> "", field |-> "",
     value |-> value]
Raised(field) ==
    [fn |-> "validate_required_fields", raised |-> "ValueError",
     field |-> field, value |-> {}]

\* the scan goes on to the end and names the last missing field
RECURSIVE validate_required_fields_LastMissing(_, _)
validate_required_fields_LastMissing(data, fields) ==
    IF fields = <<>> THEN Returned(data)
    ELSE IF fields[Len(fields)] \notin data THEN Raised(fields[Len(fields)])
    ELSE validate_required_fields_LastMissing(data, SubSeq(fields, 1, Len(fields) - 1))
\* validate_required_fields: raise ValueError("Missing required field:
\* <field>") at the first field of the list that is not in data
RECURSIVE validate_required_fields(_, _)
validate_required_fields(data, fields) ==
    IF fields = <<>> THEN Returned(data)
    ELSE IF Head(fields) \notin data THEN Raised(Head(fields))
    ELSE validate_required_fields(data, Tail(fields))

\* a parsed summary with some of the keys
FieldsInit ==
    /\ input \in SUBSET SummaryKeys
    /\ output = NotCalled

\* validate_required_fields(parsed_summary, required_fields)
ValidateFields ==
    /\ output = NotCalled
    /\ output' = validate_required_fields(input, required_fields)
    /\ UNCHANGED input

InitFields ==
    LimiterInit /\ ThreadsIdle /\ NoRejection /\ UrlIdle /\ RequestIdle /\ VerseIdle /\ FieldsInit
NextFields ==
    ValidateFields
    /\ UNCHANGED <<limiterVars, threadVars, urlVars, requestVars, verseVars, recoveryVars>>

\* a parsed summary and the validation of its keys
SpecFields == InitFields /\ [][NextFields]_vars

\* C12: a parsed object that lacks why_it_matters fails validation with a
\* missing-field error naming why_it_matters, whichever of the other five
\* required fields are present or absent.
C12_NamesWhyItMatters ==
    (output # NotCalled /\ "why_it_matters" \notin input)
    => (output.raised = "ValueError" /\ output.field = "why_it_matters")

\* the fields scanned before f
Before(f) ==
    {required_fields[i] : i \in {j \in DOMAIN required_fields :
        \E k \in DOMAIN required_fields : k > j /\ required_fields[k] = f}}

\* C12 amended: a parsed object that lacks why_it_matters fails validation
\* with a missing-field error; the field named is why_it_matters when gist,
\* analogy, experimental_details and key_findings are all present, whatever
\* the other keys, and otherwise the first of those four that is missing.
C12_NamesFirstMissing ==
    (output # NotCalled /\ "why_it_matters" \notin input)
    => /\ output.raised = "ValueError"
       /\ output.field \in (Before("why_it_matters") \cup {"why_it_matters"}) \ input
       /\ Before(output.field) \subseteq input
       /\ Before("why_it_matters") \subseteq input
            => output.field = "why_it_matters"

\* C12 witness: an object with the first four fields and neither
\* why_it_matters nor key_terms was rejected naming why_it_matters
C12_Witness ==
    /\ output # NotCalled
    /\ input = {"gist", "analogy", "experimental_details", "key_findings"}
    /\ output.raised = "ValueError"
    /\ output.field = "why_it_matters"


\* C26: validation names the first missing required field in the scan order
\* gist, analogy, experimental_details, key_findings, why_it_matters,
\* key_terms; when all six keys are present the parsed structure is returned
\* unchanged.
C26_FirstMissingInScanOrder ==
    output # NotCalled =>
        LET required == {required_fields[i] : i \in DOMAIN required_fields} IN
        IF required \subseteq input
        THEN output.raised = "" /\ output.value = input
        ELSE /\ output.raised = "ValueError"
             /\ output.field \in required \ input
             /\ Before(output.field) \subseteq input

\* C26 witness: an object without analogy and key_terms was rejected naming
\* analogy
C26_Witness ==
    /\ output # NotCalled
    /\ input = SummaryKeys \ {"analogy", "key_terms"}
    /\ output.raised = "ValueError"
    /\ output.field = "analogy"

\* C26: an object with the six fields and one more key was returned as it is
C26_ReturnedUnchanged ==
    /\ output # NotCalled
    /\ input = SummaryKeys
    /\ output.raised = ""
    /\ output.value = SummaryKeys

-----------------------------------------------------------------------------
(* Truncation of the extracted text before it is sent to the AI service:    *)
(* truncate_text of src/api/_utils.py, called by generate_paper_summary.    *)
(* A text is a sequence of runs [c, n]: the character c repeated n times;   *)
(* the run of the truncation notice stands for its 30 characters.           *)

\* Config.MAX_TEXT_LENGTH
MAX_TEXT_LENGTH == 100000

NoticeText == "[Text truncated due to length]"
\* the default of truncate_text's suffix parameter
suffix == <<[c |-> "newline", n |-> 2], [c |-> NoticeText, n |-> 1]>>

RunLen(run) == IF run.c = NoticeText THEN 30 * run.n ELSE run.n

\* len(text)
RECURSIVE Length(_)
Length(t) == IF t = <<>> THEN 0 ELSE RunLen(Head(t)) + Length(Tail(t))

\* text[:k]
RECURSIVE Take(_, _)
Take(t, k) ==
    IF k <= 0 \/ t = <<>> THEN <<>>
    ELSE IF Head(t).n <= k THEN <<Head(t)>> \o Take(Tail(t), k - Head(t).n)
    ELSE <<[c |-> Head(t).c, n |-> k]>>

\* the suffix is counted into max_length
truncate_text_WithinLimit(t, max_length) ==
    IF Length(t) <= max_length THEN t
    ELSE Take(t, max_length - Length(suffix)) \o suffix
\* truncate_text(text, max_length)
truncate_text(t, max_length) ==
    IF Length(t) <= max_length THEN t
    ELSE Take(t, max_length) \o suffix

\* generate_paper_summary: the contents handed to generate_content
SubmittedContents(paper_text) ==
    IF Length(paper_text) > MAX_TEXT_LENGTH
    THEN truncate_text(paper_text, MAX_TEXT_LENGTH)
    ELSE paper_text

\* the extracted texts: up to MaxRuns runs of lengths around the limit
RunLens ==
    {1, 2, (MAX_TEXT_LENGTH \div 2) - 1, MAX_TEXT_LENGTH \div 2,
     (MAX_TEXT_LENGTH \div 2) + 1, MAX_TEXT_LENGTH - 1, MAX_TEXT_LENGTH,
     MAX_TEXT_LENGTH + 1}
PaperTexts ==
    UNION {[1..k -> [c : {"a", "b"}, n : RunLens]] : k \in 0..MaxRuns}

TextInit ==
    /\ input \in PaperTexts
    /\ output = NotCalled

\* generate_paper_summary prepares the text and submits it
Submit ==
    /\ output = NotCalled
    /\ output' = [fn |-> "generate_content", contents |-> SubmittedContents(input)]
    /\ UNCHANGED input

InitText ==
    LimiterInit /\ ThreadsIdle /\ NoRejection /\ UrlIdle /\ RequestIdle /\ VerseIdle /\ TextInit
NextText ==
    Submit
    /\ UNCHANGED <<limiterVars, threadVars, urlVars, requestVars, verseVars, recoveryVars>>

\* an extracted text and what is submitted for it
SpecText == InitText /\ [][NextText]_vars

\* the character at position i of a text
RECURSIVE CharAt(_, _)
CharAt(t, i) ==
    IF RunLen(Head(t)) >= i THEN Head(t).c ELSE CharAt(Tail(t), i - RunLen(Head(t)))

\* the positions at which a run of the text ends, and the ones after them
RECURSIVE Ends(_, _)
Ends(t, from) ==
    IF t = <<>> THEN {}
    ELSE {from + RunLen(Head(t)), from + RunLen(Head(t)) + 1}
         \cup Ends(Tail(t), from + RunLen(Head(t)))

\* C13: when the extracted text is longer than MAX_TEXT_LENGTH, the text
\* submitted to the AI service is exactly its first MAX_TEXT_LENGTH
\* characters followed by the truncation notice; otherwise the text is
\* submitted unchanged.  (Two texts made of runs agree on 1..n when they
\* agree at 1, at n and wherever a run of either ends.)
C13_Truncation ==
    output # NotCalled =>
        IF Length(input) > MAX_TEXT_LENGTH
        THEN LET sent == output.contents
                 k == Len(sent)
             IN  /\ Length(sent) = MAX_TEXT_LENGTH + 2 + 30
                 /\ k >= 3
                 /\ sent[k] = [c |-> NoticeText, n |-> 1]
                 /\ sent[k - 1] = [c |-> "newline", n |-> 2]
                 /\ \A i \in ({1, MAX_TEXT_LENGTH} \cup Ends(input, 0)
                                \cup Ends(sent, 0)) \cap (1..MAX_TEXT_LENGTH) :
                        CharAt(sent, i) = CharAt(input, i)
        ELSE output.contents = input

\* C13 witness: a text of MAX_TEXT_LENGTH + 1 characters was submitted cut to
\* MAX_TEXT_LENGTH characters and the notice
C13_Witness ==
    /\ output # NotCalled
    /\ input = <<[c |-> "a", n |-> MAX_TEXT_LENGTH - 1], [c |-> "b", n |-> 2]>>
    /\ output.contents = <<[c |-> "a", n |-> MAX_TEXT_LENGTH - 1], [c |-> "b", n |-> 1]>>
                           \o suffix

\* a text of exactly MAX_TEXT_LENGTH characters was submitted unchanged
C13_AtLimit ==
    /\ output # NotCalled
    /\ Length(input) = MAX_TEXT_LENGTH
    /\ output.contents = input

-----------------------------------------------------------------------------
(* format_eminem_response: src/api/app.py.  A summary is a function from   *)
(* its keys to their values; a text value is a token sequence as above, the *)
(* value of key_findings or key_terms is tagged with its Python type.       *)

\* the text values of a summary: a word, and three sentences
FieldTexts == {<<"w">>, <<"w", ".", "w", ".", "w">>}

\* the sequences of at most MaxItems elements of S
Lists(S) == UNION {[1..n -> S] : n \in 0..MaxItems}

\* the elements of key_terms: dicts with a term of three sentences and,
\* possibly, a definition
KeyTerms ==
    [term : {<<"w", ".", "w", ".", "w">>}]
    \cup [term : {<<"w", ".", "w", ".", "w">>}, definition : FieldTexts]

\* the values of key_findings and of key_terms: a list, or a string
Findings ==
    {[type |-> "list", items |-> l] : l \in Lists(FieldTexts)}
    \cup {[type |-> "str", items |-> t] : t \in FieldTexts}
Terms ==
    {[type |-> "list", items |-> l] : l \in Lists(KeyTerms)}
    \cup {[type |-> "str", items |-> t] : t \in FieldTexts}

\* the summaries handed to the formatter: any of the six fields may be
\* missing, and a key the schema does not know may be present
TextFields == {"gist", "analogy", "experimental_details", "why_it_matters"}
FormattedKeys == TextFields \cup {"key_findings", "key_terms", "title"}
Summaries(keys) ==
    {[k \in keys |->
         CASE k = "gist" -> gist
           [] k = "key_findings" -> findings
           [] k = "key_terms" -> terms
           [] OTHER -> <<"w", ".", "w", ".", "w">>] :
       gist \in IF "gist" \in keys THEN FieldTexts ELSE {<<>>},
       findings \in IF "key_findings" \in keys THEN Findings ELSE {<<>>},
       terms \in IF "key_terms" \in keys THEN Terms ELSE {<<>>}}

\* the loop body over summary["key_terms"]
format_key_term_AllValues(term) ==
    [k \in DOMAIN term |-> add_rap_formatting(term[k])]
format_key_term(term) ==
    IF "definition" \in DOMAIN term
    THEN [term EXCEPT !.definition = add_rap_formatting(@)]
    ELSE term

format_eminem_response(summary) ==
    [k \in DOMAIN summary |->
        CASE k \in TextFields -> add_rap_formatting(summary[k])
          [] k = "key_findings" /\ summary[k].type = "list" ->
               [summary[k] EXCEPT !.items =
                   [i \in DOMAIN @ |-> add_rap_formatting(@[i])]]
          [] k = "key_terms" /\ summary[k].type = "list" ->
               [summary[k] EXCEPT !.items =
                   [i \in DOMAIN @ |-> format_key_term(@[i])]]
          [] OTHER -> summary[k]]

\* a summary is about to be formatted
SummaryInit ==
    /\ \E keys \in SUBSET FormattedKeys : input \in Summaries(keys)
    /\ output = NotCalled

\* parsed_response = format_eminem_response(parsed_response)
FormatSummary ==
    /\ output = NotCalled
    /\ output' = [fn |-> "format_eminem_response",
                  summary |-> format_eminem_response(input)]
    /\ UNCHANGED input

InitSummary ==
    LimiterInit /\ ThreadsIdle /\ NoRejection /\ UrlIdle /\ RequestIdle /\ VerseIdle /\ SummaryInit
NextSummary ==
    FormatSummary
    /\ UNCHANGED <<limiterVars, threadVars, urlVars, requestVars, verseVars, recoveryVars>>

\* a summary and the formatter's result for it
SpecSummary == InitSummary /\ [][NextSummary]_vars

\* the number of words of a text
Words(t) == Len(SelectSeq(t, LAMBDA c : c = "w"))

\* C24: the formatter transforms only gist, analogy, experimental_details,
\* why_it_matters, the elements of key_findings and the definition of the
\* elements of key_terms; the set of top-level keys, the length and order of
\* key_findings and key_terms, and every term value are the same after
\* formatting as before.
C24_FormatterFrame ==
    output # NotCalled =>
        LET before == input
            after  == output.summary
        IN  /\ DOMAIN after = DOMAIN before
            /\ \A k \in DOMAIN before \ (TextFields \cup {"key_findings", "key_terms"}) :
                  after[k] = before[k]
            /\ \A k \in DOMAIN before \cap {"key_findings", "key_terms"} :
                  /\ after[k].type = before[k].type
                  /\ Len(after[k].items) = Len(before[k].items)
                  /\ before[k].type = "str" => after[k] = before[k]
            /\ ("key_findings" \in DOMAIN before /\ before.key_findings.type = "list")
                  => \A i \in DOMAIN before.key_findings.items :
                        Words(after.key_findings.items[i])
                            = Words(before.key_findings.items[i])
            /\ ("key_terms" \in DOMAIN before /\ before.key_terms.type = "list")
                  => \A i \in DOMAIN before.key_terms.items :
                        /\ DOMAIN after.key_terms.items[i]
                              = DOMAIN before.key_terms.items[i]
                        /\ after.key_terms.items[i].term
                              = before.key_terms.items[i].term
                        /\ "definition" \in DOMAIN before.key_terms.items[i]
                              => Words(after.key_terms.items[i].definition)
                                   = Words(before.key_terms.items[i].definition)

\* C24 witness: gist, the second finding and the second definition were
\* reformatted; the terms, which the formatter would change as well, and the
\* title were not
C24_Witness ==
    /\ output # NotCalled
    /\ DOMAIN input = TextFields \cup {"key_findings", "key_terms", "title"}
    /\ HasMarker(output.summary.gist) /\ ~HasMarker(input.gist)
    /\ input.key_findings.type = "list" /\ Len(input.key_findings.items) = 2
    /\ Words(input.key_findings.items[1]) = 1
    /\ HasMarker(output.summary.key_findings.items[2])
    /\ input.key_terms.type = "list" /\ Len(input.key_terms.items) = 2
    /\ DOMAIN input.key_terms.items[1] = {"term"}
    /\ DOMAIN input.key_terms.items[2] = {"term", "definition"}
    /\ HasMarker(output.summary.key_terms.items[2].definition)
    /\ output.summary.key_terms.items[2].term = <<"w", ".", "w", ".", "w">>
    /\ output.summary.title = <<"w", ".", "w", ".", "w">>

-----------------------------------------------------------------------------
(* get_client_id: src/api/_rate_limiter.py.  A header value is a token      *)
(* sequence, <<>> the empty string; its tokens are an address, "," and one  *)
(* whitespace character " ".                                                 *)

\* the tokens of an x-forwarded-for header
ForwardedTokens == {"10.0.0.1", ",", " "}

\* the requests: each header absent or present with a value, remote_addr
\* absent, None or an address
NoAttr == <<"no attribute">>
None == <<"None">>
Headers == {"x-forwarded-for", "x-real-ip", "cf-connecting-ip", "x-client-ip"}
HeaderValues(h) ==
    CASE h = "x-forwarded-for" ->
             UNION {[1..n -> ForwardedTokens] : n \in 0..MaxForwarded}
      [] h = "x-real-ip" -> {<<>>, <<"10.0.0.2">>}
      [] h = "cf-connecting-ip" -> {<<>>, <<"10.0.0.3">>}
      [] h = "x-client-ip" -> {<<>>, <<"10.0.0.4">>}
IncomingRequests ==
    {[headers |-> [h \in names |->
                     CASE h = "x-forwarded-for" -> forwarded
                       [] h = "x-real-ip" -> real
                       [] h = "cf-connecting-ip" -> cf
                       [] h = "x-client-ip" -> client],
      remote_addr |-> remote_addr] :
        forwarded \in HeaderValues("x-forwarded-for"),
        real \in HeaderValues("x-real-ip"),
        cf \in HeaderValues("cf-connecting-ip"),
        client \in HeaderValues("x-client-ip"),
        names \in SUBSET Headers,
        remote_addr \in {NoAttr, None, <<"10.0.0.5">>}}

\* headers.get(name, '')
get(headers, name) == IF name \in DOMAIN headers THEN headers[name] ELSE <<>>

\* value.split(',')[0]
RECURSIVE first_entry(_)
first_entry(value) ==
    IF value = <<>> \/ Head(value) = "," THEN <<>>
    ELSE <<Head(value)>> \o first_entry(Tail(value))

get_client_id_WholeForwarded(request) ==
    LET headers == request.headers
        first == Strip(get(headers, "x-forwarded-for"))
        ip == IF first # <<>> THEN first
              ELSE IF get(headers, "x-real-ip") # <<>> THEN get(headers, "x-real-ip")
              ELSE IF get(headers, "cf-connecting-ip") # <<>>
                   THEN get(headers, "cf-connecting-ip")
              ELSE IF get(headers, "x-client-ip") # <<>>
                   THEN get(headers, "x-client-ip")
              ELSE None
        addr == IF ip # None /\ DOMAIN headers # {} THEN ip
                ELSE IF request.remote_addr = NoAttr THEN <<"unknown">>
                ELSE request.remote_addr
    IN  IF addr \in {None, <<>>} THEN <<"unknown">> ELSE addr
get_client_id(request) ==
    LET headers == request.headers
        first == Strip(first_entry(get(headers, "x-forwarded-for")))
        ip == IF first # <<>> THEN first
              ELSE IF get(headers, "x-real-ip") # <<>> THEN get(headers, "x-real-ip")
              ELSE IF get(headers, "cf-connecting-ip") # <<>>
                   THEN get(headers, "cf-connecting-ip")
              ELSE IF get(headers, "x-client-ip") # <<>>
                   THEN get(headers, "x-client-ip")
              ELSE None
        addr == IF ip # None /\ DOMAIN headers # {} THEN ip
                ELSE IF request.remote_addr = NoAttr THEN <<"unknown">>
                ELSE request.remote_addr
    IN  IF addr \in {None, <<>>} THEN <<"unknown">> ELSE addr

\* a request is about to be identified
ClientInit ==
    /\ input \in IncomingRequests
    /\ output = NotCalled

\* client_id = get_client_id(request)
Identify ==
    /\ output = NotCalled
    /\ output' = [fn |-> "get_client_id", client_id |-> get_client_id(input)]
    /\ UNCHANGED input

InitClient ==
    LimiterInit /\ ThreadsIdle /\ NoRejection /\ UrlIdle /\ RequestIdle /\ VerseIdle /\ ClientInit
NextClient ==
    Identify
    /\ UNCHANGED <<limiterVars, threadVars, urlVars, requestVars, verseVars, recoveryVars>>

\* a request and the client identifier extracted from it
SpecClient == InitClient /\ [][NextClient]_vars

\* the value of a header of the request, <<>> when it is absent or empty
Sent(name) == IF name \in DOMAIN input.headers THEN input.headers[name] ELSE <<>>

\* the first entry of the forwarded-for header, trimmed: what stands before
\* its first comma
FirstForwarded ==
    LET value == Sent("x-forwarded-for")
        commas == {i \in DOMAIN value : value[i] = ","} \cup {Len(value) + 1}
        k == CHOOSE i \in commas : \A j \in commas : i <= j
    IN  Strip(SubSeq(value, 1, k - 1))

\* the first non-empty value of a list of candidates, "unknown" if none
RECURSIVE FirstOf(_)
FirstOf(candidates) ==
    IF candidates = <<>> THEN <<"unknown">>
    ELSE IF Head(candidates) # <<>> THEN Head(candidates)
    ELSE FirstOf(Tail(candidates))

\* C25 as stated: the client identifier is the first entry of the
\* forwarded-for header, else the real-IP header, else the CDN client-IP
\* header, and the literal "unknown" when none of these is present.
C25_HeadersOrUnknown ==
    output # NotCalled =>
        output.client_id =
            FirstOf(<<FirstForwarded, Sent("x-real-ip"), Sent("cf-connecting-ip")>>)

\* C25, amended: after those three headers the x-client-ip header and then
\* the remote address of the request are used, and "unknown" is returned
\* only when none of the five is present.
C25_HeadersAddrOrUnknown ==
    output # NotCalled =>
        output.client_id =
            FirstOf(<<FirstForwarded, Sent("x-real-ip"), Sent("cf-connecting-ip"),
                      Sent("x-client-ip"),
                      IF input.remote_addr \in {NoAttr, None} THEN <<>>
                      ELSE input.remote_addr>>)

\* C25 witness: every header and the remote address are present, the
\* forwarded-for header with two entries, and the first entry, trimmed, is
\* the identifier
C25_Witness ==
    /\ output # NotCalled
    /\ DOMAIN input.headers = Headers
    /\ input.headers["x-forwarded-for"] = <<" ", "10.0.0.1", ",", "10.0.0.1">>
    /\ input.headers["x-real-ip"] = <<"10.0.0.2">>
    /\ input.remote_addr = <<"10.0.0.5">>
    /\ output.client_id = <<"10.0.0.1">>

\* C25: without any identifying information the request gets "unknown"
C25_UnknownBucket ==
    /\ output # NotCalled
    /\ DOMAIN input.headers = {}
    /\ input.remote_addr = None
    /\ output.client_id = <<"unknown">>

-----------------------------------------------------------------------------
(* Claims on the verse formatter, checked under SpecVerse *)

\* C9: the formatter is idempotent: applied to its own output it returns
\* that output unchanged, f(f(x)) = f(x), also when the first output has no
\* separator.
C9_Idempotent ==
    passes = 2 => twice = once

\* the sentence segments of a text: the non-blank pieces of the split
Segments(s) == {i \in DOMAIN re_split(s) : Strip(re_split(s)[i]) # <<>>}

\* C10: for a non-empty text that has fewer than two sentence segments, in
\* particular one unpunctuated sentence much longer than 80 characters, the
\* output contains at least one separator, produced by the length-based
\* fallback.  Stated for the texts longer than 80 characters, the only ones
\* the fallback can be expected to break.
C10_FallbackMarker ==
    (/\ passes >= 1
     /\ ~HasMarker(text)
     /\ len(text) > 80
     /\ Cardinality(Segments(text)) < 2)
    => HasMarker(once)

\* the sentence segments of a text in their order: the pieces of the split,
\* trimmed, without the empty ones
SegmentSeq(s) ==
    LET pieces == re_split(s) IN
    SelectSeq([i \in DOMAIN pieces |-> Strip(pieces[i])], LAMBDA piece : piece # <<>>)

\* the parts of a formatted text between its separators
RECURSIVE Groups(_)
Groups(s) ==
    IF s = <<>> THEN <<<<>>>>
    ELSE LET r == Groups(Tail(s)) IN
         IF Head(s) = LINEBREAK THEN <<<<>>>> \o r
         ELSE <<<<Head(s)>> \o Head(r)>> \o Tail(r)

\* the segments of all the groups, in order
RECURSIVE Flatten(_)
Flatten(groups) ==
    IF groups = <<>> THEN <<>>
    ELSE SegmentSeq(Head(groups)) \o Flatten(Tail(groups))

\* C23: sentence grouping: for a text without the marker the formatter emits
\* the non-empty sentence segments in their original order and puts the
\* marker after every second emitted segment (segments grouped in pairs),
\* also when the split produces empty or whitespace-only segments between
\* sentences.  Stated for the texts that begin with a word and have at least
\* three segments.
C23_SentenceGrouping ==
    (/\ passes >= 1
     /\ ~HasMarker(text)
     /\ text # <<>> /\ text[1] = "w"
     /\ Len(SegmentSeq(text)) >= 3)
    => LET groups == Groups(once) IN
       /\ Flatten(groups) = SegmentSeq(text)
       /\ \A g \in DOMAIN groups :
             /\ g < Len(groups) => Len(SegmentSeq(groups[g])) = 2
             /\ g = Len(groups) => Len(SegmentSeq(groups[g])) \in {1, 2}

-----------------------------------------------------------------------------
(* Claims on the summarize handler, checked under SpecRequest *)

\* the collaborators a request can reach
Collaborators ==
    {"fetch_paper_from_arxiv", "download_paper_pdf", "extract_text_from_pdf",
     "generate_paper_summary"}

Called(r) == {r.calls[i] : i \in DOMAIN r.calls}

\* C2: cleanup guarantee: on every exit path, a temporary PDF file created by
\* the download step no longer exists when the request reaches its terminal
\* state, also when the download itself failed after creating the file.
C2_CleanupGuarantee ==
    rq.pc = "done" => rq.created \cap disk = {}

\* C6: the rate-limit check is the first step of a summarize request, and a
\* request that is not admitted is answered 429 with the limiter's
\* retry_after, without payload parsing, URL validation, fetch, download,
\* extraction or AI invocation.
C6_RateCheckFirst ==
    /\ rq.calls # <<>> => rq.calls[1] = "apply_rate_limit"
    /\ rq.admitted = "rejected" =>
          /\ rq.pc = "done"
          /\ rq.calls = <<"apply_rate_limit">>
          /\ rq.response.status_code = 429
          /\ rq.response.error = "Rate limit exceeded"
          /\ rq.response.retry_after =
                is_allowed(default_rate_limiter, rq.client_id, now, store).info.retry_after
          /\ rq.url = <<>> /\ rq.arxiv_id = <<>> /\ rq.created = {}

\* C6 witness: a POST with a valid body, sent by a client that used up its
\* five requests, has been answered 429 with retry_after 60
C6_Witness ==
    /\ rq.pc = "done"
    /\ rq.admitted = "rejected"
    /\ rq.method = "POST"
    /\ rq.data.keys = {"url", "explanation_style"}
    /\ validate_arxiv_url(rq.data.url)
    /\ Len(Requests(store, rq.client_id)) = 5
    /\ rq.response.status_code = 429
    /\ rq.response.retry_after = 60

\* C7: a request whose explanation_style is not in the allow-list ends in a
\* failure response and never reaches the fetch, download or AI
\* collaborators.
C7_UnknownStyleRejected ==
    (/\ rq.method = "POST"
     /\ "explanation_style" \in rq.data.keys
     /\ rq.data.explanation_style \notin (allowed_styles \cup style_prompts))
    => /\ Called(rq) \cap Collaborators = {}
       /\ rq.pc = "done" => rq.response.status_code >= 400

\* an unknown style has been served: the request completed with status 200
\* and the five-year-old prompt
C7_ServedWithDefaultPrompt ==
    /\ rq.pc = "done"
    /\ rq.explanation_style = "klingon"
    /\ rq.prompt = "five-year-old"
    /\ rq.response.status_code = 200

\* C14: fetch failures are distinguished in the response: an arXiv search
\* with zero results ends the request with status 404 (PaperNotFound), any
\* other fetch failure with status 502 (UpstreamFetchError).
C14_FetchFailuresDistinguished ==
    (rq.pc = "done" /\ rq.failed.step = "fetch_paper_from_arxiv")
    => /\ rq.failed.outcome = "StopIteration" => rq.response.status_code = 404
       /\ rq.failed.outcome = "Exception" => rq.response.status_code = 502

\* C15: an oversized PDF fails the request with status 413
\* (PayloadTooLarge), the AI service is not invoked, and the file is deleted
\* at the size check, before the handler's cleanup.
C15_OversizedPdf ==
    rq.failed = [step |-> "extract_text_from_pdf", outcome |-> "too_large"]
    => /\ rq.pdf_path \notin disk
       /\ "generate_paper_summary" \notin Called(rq)
       /\ rq.pc = "done" => rq.response.status_code = 413

\* C16: error responses never carry upstream raw error text: the message of
\* a failure response is a fixed string for its error kind, the same
\* whatever the text of the underlying exception.
C16_FixedErrorMessages ==
    (rq.pc = "done" /\ rq.response.status_code >= 400)
    => rq.response.detail \notin UpstreamErrors

\* C17: when the extracted text is shorter than MIN_TEXT_LENGTH the request
\* fails with status 422 (InsufficientContent) and the AI service is never
\* invoked for it.
C17_InsufficientContent ==
    rq.failed = [step |-> "extract_text_from_pdf", outcome |-> "insufficient"]
    => /\ "generate_paper_summary" \notin Called(rq)
       /\ rq.pc = "done" => rq.response.status_code = 422

\* C22: the downloaded temporary file is deleted exactly once per request
\* that acquired one: on the oversized-PDF path the file is removed at the
\* size check and the cleanup path attempts no second removal; on all other
\* paths the cleanup path removes it once.
C22_RemovedExactlyOnce ==
    (rq.pc = "done" /\ rq.pdf_path # 0) => rq.removals = 1

\* the steps of the pipeline in the order the claim gives them
Pipeline ==
    <<"apply_rate_limit", "validate_arxiv_url", "fetch_paper_from_arxiv",
      "download_paper_pdf", "extract_text_from_pdf", "generate_paper_summary",
      "validate_required_fields", "format_eminem_response">>

\* the pipeline steps the request has run, in the order it ran them
StepsRun ==
    SelectSeq(rq.calls, LAMBDA c : c \in {Pipeline[i] : i \in DOMAIN Pipeline})

\* the steps run are the first steps of the pipeline, in its order, each once,
\* and a step that failed or rejected the request is the last one run
Ordered ==
    /\ Len(StepsRun) <= Len(Pipeline)
    /\ StepsRun = SubSeq(Pipeline, 1, Len(StepsRun))
    /\ rq.failed.step # "" => StepsRun[Len(StepsRun)] = rq.failed.step
    /\ rq.admitted = "rejected" => StepsRun = <<"apply_rate_limit">>
    /\ (rq.pc = "done" /\ rq.response.status_code = 200 /\ rq.method = "POST")
          => Len(StepsRun) >= Len(Pipeline) - 1

\* C21 as stated: within one request the pipeline steps run strictly in the
\* order rate check, URL validation, fetch, download, extraction, AI
\* invocation, response validation, optional style formatting, each after its
\* predecessor succeeded, and each collaborator is invoked at most once with
\* no internal retry.
C21_OrderedNoRetry ==
    /\ Ordered
    /\ Len(rq.attempts) <= 1

\* C21, amended: the steps run in that order, each after its predecessor
\* succeeded, and the handler invokes each collaborator at most once; the
\* download step alone retries internally: one attempt through the arxiv
\* library and, after it failed, a direct request to at most two URLs.
C21_OrderedOneFallback ==
    /\ Ordered
    /\ Len(rq.attempts) <= 3
    /\ \A i \in DOMAIN rq.attempts :
          rq.attempts[i] = IF i = 1 THEN "paper.download_pdf" ELSE "requests.get"

\* C21 witness: an eminem request that went through every step of the
\* pipeline, its PDF obtained by the third download attempt
C21_Witness ==
    /\ rq.pc = "done"
    /\ rq.response.status_code = 200
    /\ StepsRun = Pipeline
    /\ Len(rq.attempts) = 3

\* C29: every summarize request that passes the rate check consumes one unit
\* of the client's budget whatever happens next: the rate check appends one
\* timestamp to the client's record when it admits the request and none when
\* it rejects it, no later step of the handler touches the record, and the
\* preflight and 400 answers are given to admitted requests only.
C29_BudgetConsumed ==
    [][LET c == rq.client_id IN
       /\ rq.pc = "apply_rate_limit"
             => \/ /\ rq'.admitted = "admitted"
                   /\ rq'.pc = "preflight"
                   /\ Requests(store', c) = Append(Requests(store, c), now)
                \/ /\ rq'.admitted = "rejected"
                   /\ rq'.pc = "done" /\ rq'.response.status_code = 429
                   /\ Requests(store', c) = Requests(store, c)
       /\ rq.pc # "apply_rate_limit" => store' = store
       /\ (rq'.pc = "done" /\ rq'.response.status_code # 429)
             => /\ rq'.admitted = "admitted"
                /\ Requests(store', rq'.client_id) # <<>>
      ]_vars

\* C29 witness: the first request of a client, a CORS preflight, was answered
\* 200 and left its timestamp in the record
C29_Witness ==
    /\ rq.pc = "done"
    /\ rq.method = "OPTIONS"
    /\ rq.response.status_code = 200
    /\ Requests(store, rq.client_id) = <<now>>

\* C29: a request answered 400 for an invalid URL took the last unit of the
\* client's budget
C29_InvalidUrlCounted ==
    /\ rq.pc = "done"
    /\ rq.response.status_code = 400
    /\ rq.response.error = "Invalid arXiv URL format"
    /\ Len(Requests(store, rq.client_id)) = default_rate_limiter.requests_per_minute

\* the request has ended in one outcome: a success response and no failure,
\* or one error status with its message; an exception raised on the way was
\* turned into the response
OneOutcome ==
    /\ rq.response.status_code \in {200, 400, 429, 500}
    /\ rq.response.status_code = 200
          => /\ rq.response.error = ""
             /\ rq.raised = "" /\ rq.failed.step = ""
             /\ rq.admitted = "admitted"
    /\ rq.response.status_code # 200 => rq.response.error # ""
    /\ rq.raised # "" => rq.response.status_code \in {400, 500}
    /\ rq.admitted = "rejected" <=> rq.response.status_code = 429

\* C30, checked under SpecRequestFair: every summarize request, provided
\* each collaborator call returns or raises, ends in exactly one terminal
\* outcome, a success response or a failure with one error kind and status
\* code; no exception escapes the handler and no request yields both or
\* neither.
C30_OneTerminalOutcome ==
    /\ [](rq.pc = "done" => OneOutcome)
    /\ (rq.pc = "apply_rate_limit") ~> (rq.pc = "done" /\ OneOutcome)

\* C30 witness: a request whose PDF could not be read ended with status 500,
\* its file removed
C30_Witness ==
    /\ rq.pc = "done"
    /\ rq.failed = [step |-> "extract_text_from_pdf", outcome |-> "fitz_error"]
    /\ rq.raised = "Exception"
    /\ rq.response.status_code = 500
    /\ rq.pdf_path \notin disk

-----------------------------------------------------------------------------
(* Claims on URL validation, checked under SpecUrl *)

\* the URLs of UrlParts that the claim describes as valid: an http(s) URL
\* whose host is allow-listed and whose path is abs/ or pdf/, 4 digits, a
\* dot, 4-5 digits and an optional version suffix v<digits>, ending in one
\* of `tails`
ClaimedValid(tails) ==
    {Render(u) : u \in {w \in UrlParts :
        /\ w.scheme \in {"http", "https"}
        /\ w.host \in ALLOWED_DOMAINS
        /\ w.kind \in {"abs", "pdf"}
        /\ w.d1 = 4
        /\ w.d2 \in 4..5
        /\ (w.v /\ w.vd >= 1) \/ (~w.v /\ w.vd = 0)
        /\ w.tail \in tails
        /\ ~w.pad}}

\* C8: URL validation accepts a URL exactly when its host is one of the
\* allow-listed arXiv domains (arxiv.org, www.arxiv.org, export.arxiv.org)
\* and its path has the canonical form: every such URL is accepted, and
\* every accepted URL is such a URL (a trailing "/" or ".pdf", which the
\* patterns tolerate, is not counted against the claim).
C8_UrlAcceptedIffCanonical ==
    verdict # NoVerdict =>
        /\ Strip(url) \in ClaimedValid({<<>>})
              => (verdict.security = "accepted" /\ verdict.utils = "accepted")
        /\ (verdict.security = "accepted" \/ verdict.utils = "accepted")
              => Strip(url) \in ClaimedValid(Tails \ {<<"/", "x">>})

\* C8 witness: a canonical URL on the allow-listed host export.arxiv.org
\* was rejected by both validators.
C8_ExportRejected ==
    /\ url = <<"https", "://", "export", ".", "arxiv", ".", "org", "/", "abs", "/",
               "D", "D", "D", "D", ".", "D", "D", "D", "D", "D">>
    /\ verdict = [security |-> "rejected", utils |-> "rejected"]

-----------------------------------------------------------------------------
(* RateLimiter.is_allowed run by concurrent request threads.  Each action is *)
(* a contiguous run of one thread's statements; a thread switch is taken    *)
(* only between the statements named, which is a subset of the switches the *)
(* interpreter can make.                                                    *)

\* lines 40-49: read the clock, create the record if missing, bind client_data
Enter(t, client_id) ==
    /\ thr[t].pc = "idle"
    /\ Len(admitted[client_id])
         + Cardinality({u \in Threads : thr[u].client_id = client_id})
           < MaxAdmitted
    /\ store' = WithRecord(store, StoreKey(default_rate_limiter, client_id), now)
    /\ thr' = [thr EXCEPT ![t] = [IdleThread EXCEPT
                  !.pc = "clean", !.client_id = client_id, !.current_time = now]]
    /\ UNCHANGED <<now, last, admitted>>

\* lines 52-56, right-hand side: the list comprehension builds the new list
EvalClean(t) ==
    /\ thr[t].pc = "clean"
    /\ thr' = [thr EXCEPT
                 ![t].cleaned =
                     CleanOld(store[thr[t].client_id].requests,
                              thr[t].current_time
                                - default_rate_limiter.window_size_seconds),
                 ![t].pc = "assign"]
    /\ UNCHANGED <<now, store, last, admitted>>

\* line 53, the assignment: client_data['requests'] = <the new list>
AssignClean(t) ==
    /\ thr[t].pc = "assign"
    /\ store' = [store EXCEPT ![thr[t].client_id].requests = thr[t].cleaned]
    /\ thr' = [thr EXCEPT ![t].pc = "count"]
    /\ UNCHANGED <<now, last, admitted>>

\* lines 59-60: count the list now in the record, decide
CountAndDecide(t) ==
    LET n == Len(store[thr[t].client_id].requests) IN
    /\ thr[t].pc = "count"
    /\ thr' = [thr EXCEPT
                 ![t].current_request_count = n,
                 ![t].is_allowed =
                     UnderLimit(n, default_rate_limiter.requests_per_minute),
                 ![t].pc = "append"]
    /\ UNCHANGED <<now, store, last, admitted>>

\* lines 63-64: append the current time if allowed
AppendIfAllowed(t) ==
    /\ thr[t].pc = "append"
    /\ store' = IF thr[t].is_allowed
                THEN [store EXCEPT ![thr[t].client_id].requests =
                         Append(@, thr[t].current_time)]
                ELSE store
    /\ thr' = [thr EXCEPT ![t].pc = "return"]
    /\ UNCHANGED <<now, last, admitted>>

\* lines 66-83: the call returns its decision (the info dictionary is
\* computed from locals and the record and returned with it)
Return(t) ==
    /\ thr[t].pc = "return"
    /\ admitted' = IF thr[t].is_allowed
                   THEN [admitted EXCEPT ![thr[t].client_id] =
                            Append(@, thr[t].current_time)]
                   ELSE admitted
    /\ thr' = [thr EXCEPT ![t] = IdleThread]
    /\ UNCHANGED <<now, store, last>>

ThreadsNext ==
    \/ \E t \in Threads, client_id \in Clients : Enter(t, client_id)
    \/ \E t \in Threads : EvalClean(t)
    \/ \E t \in Threads : AssignClean(t)
    \/ \E t \in Threads : CountAndDecide(t)
    \/ \E t \in Threads : AppendIfAllowed(t)
    \/ \E t \in Threads : Return(t)

\* concurrent calls of default_rate_limiter.is_allowed
SpecThreads ==
    Init /\ [][ThreadsNext /\ UNCHANGED <<urlVars, requestVars, verseVars, helperVars, recoveryVars>>]_vars

\* the admitted timestamps of a client that lie inside the window at `now`
AdmittedInWindow(client_id, self) ==
    SelectSeq(admitted[client_id],
              LAMBDA ts : ts > now - self.window_size_seconds)

\* C4: a check is atomic per client. Under every interleaving of concurrent
\* checks, the calls admitted for a client inside one window number at most
\* the capacity, and the timestamp of every admitted call that is still
\* inside the window is in the client's record.
C4_AtomicCheck ==
    \A c \in Clients :
        LET inWindow == AdmittedInWindow(c, default_rate_limiter) IN
        /\ Len(inWindow) <= default_rate_limiter.requests_per_minute
        /\ Len(inWindow)
              <= Len(SelectSeq(Requests(store, c),
                       LAMBDA ts : ts > now - default_rate_limiter.window_size_seconds))

-----------------------------------------------------------------------------
(* Claims on the rate limiter, checked under Spec *)

AllEqual(requests, t) == \A i \in DOMAIN requests : requests[i] = t

\* C1: sliding-window correctness. For a limiter of capacity C and window W:
\* a check at time t against a record that holds fewer than C timestamps,
\* all equal to t (the empty record included), is admitted; a check at t
\* against C timestamps equal to t is rejected with retry_after = W; a check
\* at a time later than every recorded timestamp + W is admitted again.
C1_SlidingWindow ==
    last # NoCheck =>
        LET C == last.limiter.requests_per_minute
            W == last.limiter.window_size_seconds
            t == last.at
        IN  /\ (Len(last.before) < C /\ AllEqual(last.before, t))
                    => last.is_allowed
            /\ (Len(last.before) = C /\ AllEqual(last.before, t))
                    => (~last.is_allowed /\ last.info.retry_after = W)
            /\ (\A i \in DOMAIN last.before : t > last.before[i] + W)
                    => last.is_allowed

\* C1 witness: a full budget of C admissions at one time t0, and a check
\* later than t0 + W that was admitted again.
C1_Witness ==
    /\ last # NoCheck
    /\ Len(last.before) = last.limiter.requests_per_minute
    /\ \E t0 \in 0..MaxTime :
            /\ AllEqual(last.before, t0)
            /\ last.at > t0 + last.limiter.window_size_seconds
    /\ last.is_allowed

\* the part of an answer that C3 names: decision, remaining count, reset time
Answer(self, client_id, current_time, st) ==
    LET r == is_allowed(self, client_id, current_time, st) IN
    [is_allowed |-> r.is_allowed, remaining |-> r.info.remaining,
     reset |-> r.info.reset]

\* C3: two limiter instances are independent. A check made through one
\* instance leaves unchanged the decision, the remaining count and the reset
\* time that a check through the other instance returns for the same client.
C3_IndependentInstances ==
    [][\A self \in Limiters, client_id \in Clients :
          Check(self, client_id) =>
              \A other \in Limiters \ {self} :
                  Answer(other, client_id, now, store')
                      = Answer(other, client_id, now, store)]_limiterVars

\* the store with every record but client_id's removed
Only(st, client_id) == [k \in DOMAIN st \cap {client_id} |-> st[k]]

\* C5: per-client isolation. A check for one client leaves every other
\* client's record, and the answer every limiter would give that client,
\* unchanged; and its own answer is the one it would get were the other
\* clients' records absent, so each client has a full budget of its own.
C5_PerClientIsolation ==
    [][\A self \in Limiters, client_id \in Clients :
          Check(self, client_id) =>
              /\ \A d \in Clients \ {client_id} :
                    /\ (d \in DOMAIN store') = (d \in DOMAIN store)
                    /\ Requests(store', d) = Requests(store, d)
                    /\ \A l \in Limiters :
                          LET a == is_allowed(l, d, now, store')
                              b == is_allowed(l, d, now, store)
                          IN  a.is_allowed = b.is_allowed /\ a.info = b.info
              /\ LET mine  == is_allowed(self, client_id, now, store)
                      alone == is_allowed(self, client_id, now, Only(store, client_id))
                  IN  /\ mine.is_allowed = alone.is_allowed
                      /\ mine.info = alone.info
                      /\ last'.is_allowed = alone.is_allowed
                      /\ last'.info = alone.info]_limiterVars

\* C5 witness: both clients hold a full summarize budget of admitted
\* timestamps inside the same window, the last one just admitted.
C5_Witness ==
    /\ last # NoCheck
    /\ last.is_allowed
    /\ last.limiter = default_rate_limiter
    /\ \A c \in Clients :
          /\ Len(Requests(store, c)) = default_rate_limiter.requests_per_minute
          /\ \A i \in DOMAIN Requests(store, c) :
                Requests(store, c)[i] > now - default_rate_limiter.window_size_seconds

\* the timestamps of the last check's record that are not strictly older
\* than its time minus the window
NotOlder(before, at, window_seconds) ==
    SelectSeq(before, LAMBDA ts : ~(ts < at - window_seconds))

\* the client's record after the last check, without the timestamp the check
\* appended
KeptByLast ==
    LET after == Requests(store, last.client) IN
    IF last.is_allowed THEN SubSeq(after, 1, Len(after) - 1) ELSE after

\* C18: eviction boundary: a check at time now evicts exactly the recorded
\* timestamps strictly older than now - window_seconds; a timestamp equal to
\* now - window_seconds survives and still counts toward the limit.
C18_EvictionBoundary ==
    last # NoCheck =>
        LET surviving == NotOlder(last.before, last.at,
                                  last.limiter.window_size_seconds)
        IN  /\ KeptByLast = surviving
            /\ last.is_allowed
                  <=> Len(surviving) < last.limiter.requests_per_minute

\* the timestamps of the last check's record that its eviction left
Surviving ==
    CleanOld(last.before, last.at - last.limiter.window_size_seconds)

\* C19: a check is admitted exactly when the number of timestamps surviving
\* eviction is below capacity; afterwards the client's record is the
\* surviving timestamps plus now if the check was admitted, and exactly the
\* surviving timestamps if it was rejected.
C19_AdmitAndRecord ==
    last # NoCheck =>
        /\ last.is_allowed <=> Len(Surviving) < last.limiter.requests_per_minute
        /\ Requests(store, last.client) =
              IF last.is_allowed THEN Surviving \o <<last.at>> ELSE Surviving

\* C19 witness: a check that evicted a timestamp was rejected, five
\* timestamps surviving, and the record holds exactly those five
C19_Witness ==
    /\ last # NoCheck
    /\ ~last.is_allowed
    /\ Len(last.before) > Len(Surviving)
    /\ Len(Surviving) = 5
    /\ Requests(store, last.client) = Surviving

\* C20: the info returned by a check is limit = capacity, remaining =
\* max(0, capacity - count - (1 if admitted else 0)) with count taken after
\* eviction and before the append, reset = oldest surviving timestamp +
\* window (now + window if none survives), retry_after = max(0, reset - now)
\* when rejected and 0 when admitted.
C20_InfoFormula ==
    last # NoCheck =>
        LET capacity == last.limiter.requests_per_minute
            window   == last.limiter.window_size_seconds
            count    == Len(Surviving)
            oldest   == CHOOSE ts \in {Surviving[i] : i \in DOMAIN Surviving} :
                            \A i \in DOMAIN Surviving : ts <= Surviving[i]
            reset_at == IF count > 0 THEN oldest + window ELSE last.at + window
        IN  /\ last.info.limit = capacity
            /\ last.info.remaining =
                  Max(0, capacity - count - (IF last.is_allowed THEN 1 ELSE 0))
            /\ last.info.reset = reset_at
            /\ last.info.retry_after =
                  IF last.is_allowed THEN 0 ELSE Max(0, reset_at - last.at)

\* C20 witness: a rejected check that evicted a timestamp and whose oldest
\* surviving timestamp is 30 seconds old answered remaining 0, a reset 30
\* seconds ahead and retry_after 30
C20_Witness ==
    /\ last # NoCheck
    /\ ~last.is_allowed
    /\ Len(last.before) > Len(Surviving)
    /\ last.info.remaining = 0
    /\ last.info.reset = last.at + 30
    /\ last.info.retry_after = 30

\* the calls admitted for a client at a time in [from, from + window]
AdmittedWithin(client_id, self, from) ==
    SelectSeq(admitted[client_id],
              LAMBDA at : at >= from /\ at <= from + self.window_size_seconds)

\* C27: budget invariant, checked under SpecBudget: after any sequence of
\* checks with non-decreasing times, the requests of a client that a limiter
\* admitted with timestamps inside any interval of length window_seconds
\* number at most the capacity of that limiter.  (An interval holding the
\* most admitted requests can be taken to begin at one of them.)
C27_BudgetInvariant ==
    \A client_id \in Clients :
        \A i \in DOMAIN admitted[client_id] :
            Len(AdmittedWithin(client_id, default_rate_limiter, admitted[client_id][i]))
                <= default_rate_limiter.requests_per_minute

\* C28: recovery after rejection, checked under SpecRecovery: once a
\* summarize check of a client was rejected with reset time R, and as long
\* as no summarize request of that client is admitted, a summarize check of
\* it is rejected only at times before R, and a rejected check announces a
\* reset time no later than R.
C28_RecoveryAfterRejection ==
    (/\ last # NoCheck
     /\ last.limiter = default_rate_limiter
     /\ ~last.is_allowed)
    => \A R \in pending[last.client] :
          /\ last.at < R
          /\ last.info.reset <= R

=============================================================================
